---- MODULE Spec2Model ----
(***************************************************************************)
(* PuzzleSnap: the Sudoku recognition pipeline (sudoku-recognition) and    *)
(* its conflict pruner, modelled as state machines.                        *)
(*                                                                         *)
(*   SpecPrune  pruneConflictingDetections, one loop iteration per step,   *)
(*              over bounded inputs.                                       *)
(*   Spec       recognizeSudokuFromImageFile, one step per statement       *)
(*              group / await point.                                       *)
(***************************************************************************)
EXTENDS Integers, Sequences, FiniteSets, TLC

(***************************************************************************)
(* Board geometry and values                                               *)
(***************************************************************************)
CELL_COUNT == 81

\* BoardValues holds a digit 1..9 or null; null is written 0 (JS falsy, as
\* the code's `!bestDigit` test treats it).
null == 0

Cells == 0 .. (CELL_COUNT - 1)

\* Bounds of the inputs that are enumerated.
PruneCells == 3

InkCells == 1

MaxDigit == 2

\* The cells that may hold a detection, in the order they are added to the
\* input as the bound grows: 1-28 column peers, 28-27 row and box peers,
\* 27 no peer of 1, 0 a peer of 1 and of 27, 10 a box-only peer of 0,
\* 80 a peer of none of them.
CellAt == <<1, 28, 27, 0, 10, 80, 5, 45>>

Digits == 1 .. MaxDigit

\* Confidence scores offered to the pruner.
PruneConfs == {30, 86, 90}

EmptyValues == [i \in Cells |-> null]

ZeroConf == [i \in Cells |-> 0]

(***************************************************************************)
(* pruneConflictingDetections                                              *)
(***************************************************************************)
highConfidence == 86

PruneGuardLimitShort == highConfidence - 85

PruneGuardLimit == 200

MaxOf(S) == CHOOSE m \in S : \A n \in S : n <= m

\* The unit test with the column comparison left out.
SameUnitNoCol(i, idx) ==
    LET row == idx \div 9
        col == idx % 9
        r == i \div 9
        c == i % 9
        sameRow == r = row
        sameBox == (r \div 3 = row \div 3) /\ (c \div 3 = col \div 3)
    IN  sameRow \/ sameBox

\* The row/column/box test inlined in peerIndexes.
SameUnitInline(i, idx) ==
    LET row == idx \div 9
        col == idx % 9
        r == i \div 9
        c == i % 9
        sameRow == r = row
        sameCol == c = col
        sameBox == (r \div 3 = row \div 3) /\ (c \div 3 = col \div 3)
    IN  sameRow \/ sameCol \/ sameBox

\* The cells the scan of peerIndexes can accept for a given cell idx (the
\* source's `index`, renamed apart from the recognition loop's variable).
UnitPeers == [idx \in Cells |-> {i \in Cells : i # idx /\ SameUnitInline(i, idx)}]

\* peerIndexes without the comparison of the digits.
peerIndexesAnyDigit(nv, idx) == {i \in UnitPeers[idx] : nv[i] # null}

peerIndexes(nv, idx) == {i \in UnitPeers[idx] : nv[i] # null /\ nv[i] = nv[idx]}

\* The inner loop without `if (peers.length === 0) continue`.
CandidatesWithoutPeers(nv) == {i \in Cells : nv[i] # null}

\* Cells the inner loop does not `continue` past.
Candidates(nv) == {i \in Cells : nv[i] # null /\ peerIndexes(nv, i) # {}}

\* The score with the penalty given for `selfConfidence <= peerMax`.
CandidateScoreProtectsLower(nc, i, peers) ==
    LET selfConfidence == nc[i]
        peerMax == MaxOf({nc[p] : p \in peers} \cup {0})
        isVeryHigh == selfConfidence >= highConfidence
        protectedPenalty == IF isVeryHigh /\ selfConfidence <= peerMax THEN 1000 ELSE 0
    IN  selfConfidence + protectedPenalty

\* selfConfidence + protectedPenalty, given the peers of cell i.
CandidateScore(nc, i, peers) ==
    LET selfConfidence == nc[i]
        peerMax == MaxOf({nc[p] : p \in peers} \cup {0})
        isVeryHigh == selfConfidence >= highConfidence
        protectedPenalty == IF isVeryHigh /\ selfConfidence >= peerMax THEN 1000 ELSE 0
    IN  selfConfidence + protectedPenalty

\* Every cell the inner loop scores, with its score.
Scored(nv, nc) ==
    {[index |-> i, score |-> CandidateScore(nc, i, peerIndexes(nv, i))] : i \in Candidates(nv)}

\* The scan replacing the pair on the HIGHEST score.
DropIndexHighest(nv, nc) ==
    LET scored == Scored(nv, nc)
    IN  IF scored = {} THEN -1
        ELSE (CHOOSE p \in scored : \A q \in scored :
                 q.score < p.score \/ (q.score = p.score /\ q.index >= p.index)).index

\* dropIndex after the inner for loop.  dropScore starts at +Infinity and a
\* strictly lower score replaces the pair, so the first cell with the lowest
\* score wins; -1 when no cell has a same-digit peer.
DropIndex(nv, nc) ==
    LET scored == Scored(nv, nc)
    IN  IF scored = {} THEN -1
        ELSE (CHOOSE p \in scored : \A q \in scored :
                 q.score > p.score \/ (q.score = p.score /\ q.index >= p.index)).index

\* `[...values]`: the array the copy lives in.  src is the copied array,
\* fresh the newly allocated one.
SpreadAlias(src, fresh) == src

SpreadCopy(src, fresh) == fresh

\* The whole function, as called by recognizeSudokuFromImageFile.
RECURSIVE PruneLoop(_, _, _, _)
PruneLoop(nv, nc, g, d) ==
    IF g >= PruneGuardLimit THEN [values |-> nv, dropped |-> d]
    ELSE LET di == DropIndex(nv, nc)
         IN  IF di < 0 THEN [values |-> nv, dropped |-> d]
             ELSE PruneLoop([nv EXCEPT ![di] = null], [nc EXCEPT ![di] = 0], g + 1, d + 1)

pruneConflictingDetections(vals, confs) == PruneLoop(vals, confs, 0, 0)

VARIABLES
    heap,        \* the arrays: values, confidences (caller's), nextValues, nextConf
    nvRef,       \* the array nextValues refers to
    ncRef,       \* the array nextConf refers to
    inValues,    \* the input values as they were at the call
    inConf,      \* the input confidences as they were at the call
    dropped,
    guard,
    lastDrop,    \* dropIndex of the latest iteration
    ppc          \* "idle", "loop", "returned"

pruneVars == <<heap, nvRef, ncRef, inValues, inConf, dropped, guard, lastDrop, ppc>>

VARIABLES
    rpc,              \* position in recognizeSudokuFromImageFile
    err,              \* message of the error the call rejected with ("" if none)
    detectionBinary,  \* canvas returned by createDetectionBinary
    corners,          \* "null" or "corners" (options.manualCorners or findGridCorners)
    warpedSource,     \* "null" or the canvas warpCanvasToSquare returned
    warpedBinary,
    correctedSource,
    correctedBinary,
    profile,          \* ink profile kind of the rotated binary canvas
    rect,             \* estimateGridRect result
    workerState,      \* "none", "created", "terminated"
    outstanding,      \* recognize requests not yet settled
    index,
    detected,
    confidences,
    stats,
    gated,            \* the current cell took the gating `continue`
    calls,            \* recognize requests issued for the current cell
    bestDigit,
    bestConfidence,
    primaryResult,
    fallbackResult,
    fallbackRan,
    replaced,         \* the fallback branch assigned bestDigit
    result,           \* the returned {values, droppedConflicts}
    progressCount,    \* calls onProgress has received
    progressLast      \* state.progress of the latest call, in 1/8100ths

geomVars == <<detectionBinary, corners, warpedSource, warpedBinary,
              correctedSource, correctedBinary, profile, rect>>

cellVars == <<stats, gated, calls, bestDigit, bestConfidence,
              primaryResult, fallbackResult, fallbackRan, replaced>>

boardVars == <<index, detected, confidences>>

progVars == <<progressCount, progressLast>>

recVars == <<rpc, err, geomVars, workerState, outstanding, boardVars, cellVars, result,
             progVars>>

VARIABLES
    lpc,       \* a call of a library function: "idle", "called", "returned", "thrown",
               \* or the loop the call is in
    libCall,   \* the function called and its arguments
    libRet     \* what the call returned, or the message of the error it threw; of
               \* a function that works in place, its locals and the data it changes

libVars == <<lpc, libCall, libRet>>

VARIABLES
    running,     \* useState(false)
    activeId,    \* useState(null): a fixture id or null
    results,     \* useState([]): the FixtureResult entries, in order
    runs,        \* the runFixture calls made so far, each with its position
    batchPos,    \* number of fixtures runAll has started; 0 before the loop
    batches,     \* clicks on "Run all fixtures" so far
    clicks       \* clicks on a "Run" button so far

runnerVars == <<running, activeId, results, runs, batchPos, batches, clicks>>

\* PuzzleSnapApp (SudokuApp.tsx, second component).
VARIABLES
    stage,                 \* useState("upload"): "upload" or "detect"; "play", in
                           \* which no recognition starts, is not followed
    importFile,            \* useState(null): the uploaded file, NoFile if null
    manualCorners,         \* useState([]): the number of corners in the array
    previousCornerCount,   \* previousCornerCountRef.current
    busy,                  \* useState(false)
    error,                 \* useState(null): a message, "" if null
    previewUrl,            \* useState(null): the preview of a result, NoRecognition if null
    recognizedValues,      \* the values of a result, NoRecognition for createEmptyValues()
    recognitions           \* the runRecognition calls made so far, each with its position

snapVars == <<stage, importFile, manualCorners, previousCornerCount, busy, error,
              previewUrl, recognizedValues, recognitions>>

\* The SudokuApp board (SudokuApp.tsx, first component).
VARIABLES
    startValues,    \* useState(initial), never set again
    boardValues,    \* useState(initial): `values`
    notes,          \* useState(createEmptyNotes()): a bit mask per cell
    selected,       \* useState(0): a cell index
    noteMode,       \* useState(false)
    history,        \* useState([{values: initial, notes: empty}]): the snapshots
    historyIndex    \* useState(0): an index into history, 0-based as in the code

playVars == <<startValues, boardValues, notes, selected, noteMode, history, historyIndex>>

\* The variables outside recognizeSudokuFromImageFile, those outside
\* pruneConflictingDetections and those outside the library calls.
outsideRec == <<pruneVars, libVars, runnerVars, snapVars, playVars>>

outsidePrune == <<recVars, libVars, runnerVars, snapVars, playVars>>

outsideLib == <<pruneVars, recVars, runnerVars, snapVars, playVars>>

outsideRunner == <<pruneVars, recVars, libVars, snapVars, playVars>>

\* The variables outside PuzzleSnapApp and those outside the SudokuApp board.
outsideSnap == <<pruneVars, recVars, libVars, runnerVars, playVars>>

outsidePlay == <<pruneVars, recVars, libVars, runnerVars, snapVars>>

vars == <<pruneVars, recVars, libVars, runnerVars, snapVars, playVars>>

nextValues == heap[nvRef]

nextConf == heap[ncRef]

\* Inputs: the first PruneCells cells of CellAt hold null or a digit with a
\* confidence and every other cell is null; and the boards that hold one
\* digit in all 81 cells, the inputs that need the most removals.
SparseInputs ==
    LET active == {CellAt[k] : k \in 1 .. PruneCells}
        choice == [active -> ({null} \X {0}) \cup (Digits \X PruneConfs)]
    IN  {[values |-> [i \in Cells |-> IF i \in active THEN f[i][1] ELSE null],
          confidences |-> [i \in Cells |-> IF i \in active THEN f[i][2] ELSE 0]]
            : f \in choice}

FullInputs ==
    {[values |-> [i \in Cells |-> d],
      confidences |-> [i \in Cells |-> IF ((i % 9) + (i \div 9)) % 2 = 0 THEN c1 ELSE c2]]
        : d \in Digits, c1 \in PruneConfs, c2 \in {30, 90}}

PruneInputs == SparseInputs \cup FullInputs

PruneIdle ==
    /\ heap = [values |-> EmptyValues, confidences |-> ZeroConf,
               nextValues |-> EmptyValues, nextConf |-> ZeroConf]
    /\ nvRef = "nextValues"
    /\ ncRef = "nextConf"
    /\ inValues = EmptyValues
    /\ inConf = ZeroConf
    /\ dropped = 0
    /\ guard = 0
    /\ lastDrop = -1
    /\ ppc = "idle"

\* Entry of pruneConflictingDetections: the two copies and dropped = 0.
PruneEntry(in) ==
    /\ nvRef = SpreadCopy("values", "nextValues")
    /\ ncRef = SpreadCopy("confidences", "nextConf")
    /\ heap = [values |-> in.values, confidences |-> in.confidences,
               nextValues |-> in.values, nextConf |-> in.confidences]
    /\ inValues = in.values
    /\ inConf = in.confidences
    /\ dropped = 0
    /\ guard = 0
    /\ lastDrop = -1
    /\ ppc = "loop"

\* An iteration that clears the dropped cell together with its same-digit
\* peers while counting one removal.
PruneRemoveWithPeers ==
    /\ ppc = "loop"
    /\ UNCHANGED outsidePrune
    /\ guard < PruneGuardLimit
    /\ LET di == DropIndex(nextValues, nextConf)
           gone == IF di < 0 THEN {} ELSE {di} \cup peerIndexes(nextValues, di)
       IN  /\ di >= 0
           /\ heap' = [n \in DOMAIN heap |->
                         IF n = nvRef THEN [i \in Cells |-> IF i \in gone THEN null ELSE heap[n][i]]
                         ELSE IF n = ncRef THEN [i \in Cells |-> IF i \in gone THEN 0 ELSE heap[n][i]]
                         ELSE heap[n]]
           /\ lastDrop' = di
    /\ dropped' = dropped + 1
    /\ guard' = guard + 1
    /\ UNCHANGED <<nvRef, ncRef, inValues, inConf, ppc>>

\* One iteration of the guard loop that removes a cell.
PruneRemove ==
    /\ ppc = "loop"
    /\ UNCHANGED outsidePrune
    /\ guard < PruneGuardLimit
    /\ LET di == DropIndex(nextValues, nextConf)
       IN  /\ di >= 0
           /\ heap' = [n \in DOMAIN heap |->
                         IF n = nvRef THEN [heap[n] EXCEPT ![di] = null]
                         ELSE IF n = ncRef THEN [heap[n] EXCEPT ![di] = 0]
                         ELSE heap[n]]
           /\ lastDrop' = di
    /\ dropped' = dropped + 1
    /\ guard' = guard + 1
    /\ UNCHANGED <<nvRef, ncRef, inValues, inConf, ppc>>

\* The loop ends, by `break` when no cell has a same-digit peer or by the
\* guard reaching its limit, and the function returns.
PruneReturn ==
    /\ ppc = "loop"
    /\ UNCHANGED outsidePrune
    /\ ~(guard < PruneGuardLimit /\ DropIndex(nextValues, nextConf) >= 0)
    /\ ppc' = "returned"
    /\ UNCHANGED <<heap, nvRef, ncRef, inValues, inConf, dropped, guard, lastDrop>>

PruneNext == PruneRemove \/ PruneReturn

(***************************************************************************)
(* estimateGridRect                                                        *)
(***************************************************************************)
MinOf2(a, b) == IF a < b THEN a ELSE b

MaxOf2(a, b) == IF a > b THEN a ELSE b

Abs(a) == IF a < 0 THEN -a ELSE a

\* Array.findIndex(count > threshold) over hits[0 .. n-1]; -1 when none.
FindIndex(hits, n, threshold) ==
    IF \A y \in 0 .. n - 1 : ~(hits[y] > threshold) THEN -1
    ELSE CHOOSE y \in 0 .. n - 1 :
            hits[y] > threshold /\ \A z \in 0 .. y - 1 : ~(hits[z] > threshold)

\* findIndex on the reversed copy of hits.
FindIndexReversed(hits, n, threshold) ==
    FindIndex([k \in 0 .. n - 1 |-> hits[n - 1 - k]], n, threshold)

\* The fallback square with the longer side as its size.
FullImageSquareMax(width, height) == [left |-> 0, top |-> 0, size |-> MaxOf2(width, height)]

FullImageSquare(width, height) == [left |-> 0, top |-> 0, size |-> MinOf2(width, height)]

\* estimateGridRect without the test of the box's sides.
estimateGridRectAnyAspect(width, height, rowHits, colHits) ==
    LET rowThreshold == MaxOf2(8, (width * 9) \div 100)
        colThreshold == MaxOf2(8, (height * 9) \div 100)
        top == FindIndex(rowHits, height, rowThreshold)
        bottom == height - 1 - FindIndexReversed(rowHits, height, rowThreshold)
        left == FindIndex(colHits, width, colThreshold)
        right == width - 1 - FindIndexReversed(colHits, width, colThreshold)
        rectWidth == right - left
        rectHeight == bottom - top
        size == MinOf2(rectWidth, rectHeight)
    IN  IF top < 0 \/ left < 0 \/ bottom <= top \/ right <= left
           THEN FullImageSquare(width, height)
        ELSE [left |-> MaxOf2(0, left + ((rectWidth - size) \div 2)),
              top |-> MaxOf2(0, top + ((rectHeight - size) \div 2)),
              size |-> size]

\* rowHits[y], colHits[x]: the number of pixels with luma < 135 per row
\* and per column of the canvas.
estimateGridRect(width, height, rowHits, colHits) ==
    LET rowThreshold == MaxOf2(8, (width * 9) \div 100)
        colThreshold == MaxOf2(8, (height * 9) \div 100)
        top == FindIndex(rowHits, height, rowThreshold)
        bottom == height - 1 - FindIndexReversed(rowHits, height, rowThreshold)
        left == FindIndex(colHits, width, colThreshold)
        right == width - 1 - FindIndexReversed(colHits, width, colThreshold)
        rectWidth == right - left
        rectHeight == bottom - top
        size == MinOf2(rectWidth, rectHeight)
    IN  IF top < 0 \/ left < 0 \/ bottom <= top \/ right <= left
           THEN FullImageSquare(width, height)
        ELSE IF Abs(rectWidth - rectHeight) * 4 > MinOf2(width, height)
           THEN FullImageSquare(width, height)
        ELSE [left |-> MaxOf2(0, left + ((rectWidth - size) \div 2)),
              top |-> MaxOf2(0, top + ((rectHeight - size) \div 2)),
              size |-> size]

(***************************************************************************)
(* recognizeSudokuFromImageFile                                            *)
(***************************************************************************)
\* warpCanvasToSquare's default size.
WarpSize == 900

\* The decoded image after scaling to the source canvas (width, height).
SourceWidth == 16

SourceHeight == 12

\* Confidences the classifier reports.
ClassifierConfs == {16, 33, 34}

\* What a recognize call resolves to: the first character of text matching
\* [1-9] as a number (null when text has none) and the confidence.
ClassifierResults == [digit : {null} \cup Digits, confidence : ClassifierConfs]

NoResult == [digit |-> null, confidence |-> -1]

\* The cells of the photographed grid that carry ink; all other cells are
\* blank.  80-79 are row peers, 80-71 column peers, 79-71 box peers.
InkCellAt == <<80, 79, 71, 62, 8, 72>>

InkSet == {InkCellAt[k] : k \in 1 .. InkCells}

\* detectCellInkStats results offered for a cell with ink (inkRatio in
\* thousandths).
InkStats ==
    {[inkRatio |-> 9, bboxWidth |-> 20, bboxHeight |-> 20, touchesEdge |-> FALSE],
     [inkRatio |-> 50, bboxWidth |-> 5, bboxHeight |-> 20, touchesEdge |-> FALSE],
     [inkRatio |-> 50, bboxWidth |-> 20, bboxHeight |-> 5, touchesEdge |-> FALSE],
     [inkRatio |-> 39, bboxWidth |-> 20, bboxHeight |-> 20, touchesEdge |-> TRUE],
     [inkRatio |-> 40, bboxWidth |-> 6, bboxHeight |-> 6, touchesEdge |-> TRUE]}

BlankStats == [inkRatio |-> 0, bboxWidth |-> 0, bboxHeight |-> 0, touchesEdge |-> FALSE]

\* The gating condition of the per-cell loop.
IsGated(st) ==
    \/ st.inkRatio < 10
    \/ st.bboxWidth < 6
    \/ st.bboxHeight < 6
    \/ (st.touchesEdge /\ st.inkRatio < 40)

\* `!bestDigit || bestConfidence <= 34`
NeedsFallbackInclusive(digit, confidence) == digit = null \/ confidence <= 34

\* `!bestDigit || bestConfidence < 34`
NeedsFallback(digit, confidence) == digit = null \/ confidence < 34

\* `fallbackMatch && fallbackResult.data.confidence > bestConfidence`
FallbackWins(fb, confidence) == fb.digit # null /\ fb.confidence > confidence

\* `bestDigit && bestConfidence >= 16`
AcceptsInclusive(digit, confidence) == digit # null /\ confidence >= 16

\* `bestDigit && bestConfidence > 16`
Accepts(digit, confidence) == digit # null /\ confidence > 16

\* A warp result taken whenever that one canvas was produced.
UseWarpedEach(warped, other, unwarped) == IF warped # "null" THEN warped ELSE unwarped

\* `if (warpedSource && warpedBinary)`: the warped canvas replaces the
\* unwarped one only when both warps produced a canvas.
UseWarped(warped, other, unwarped) ==
    IF warped # "null" /\ other # "null" THEN warped ELSE unwarped

\* await of a recognize request that does not wait for its completion.
AfterAwaitNotAwaited(n) == n

\* Requests outstanding once the awaited recognize has settled.
AfterAwait(n) == n - 1

\* Per-row and per-column dark-pixel counts of the rotated binary canvas:
\* a blank page, or a page with a dark frame inset from the borders.
InkProfile(kind, width, height) ==
    LET t == height \div 10
        l == width \div 8
    IN  IF kind = "blank"
           THEN [rowHits |-> [y \in 0 .. height - 1 |-> 0],
                 colHits |-> [x \in 0 .. width - 1 |-> 0]]
           ELSE [rowHits |-> [y \in 0 .. height - 1 |->
                                IF y >= t /\ y <= height - 1 - t THEN width - 2 * l ELSE 0],
                 colHits |-> [x \in 0 .. width - 1 |->
                                IF x >= l /\ x <= width - 1 - l THEN height - 2 * t ELSE 0]]

\* "nocontext": estimateGridRect got no 2d context and read no pixels.
ProfileKinds == {"blank", "frame", "nocontext"}

CanvasSize(canvas) ==
    IF canvas \in {"warpedSource", "warpedBinary"}
       THEN [width |-> WarpSize, height |-> WarpSize]
       ELSE [width |-> SourceWidth, height |-> SourceHeight]

NoRect == [left |-> 0, top |-> 0, size |-> 0]

NoReturn == [values |-> EmptyValues, droppedConflicts |-> -1]

\* The call rejects with message m.
Throw(m) == rpc' = "thrown" /\ err' = m

\* state.progress is kept in 1/8100ths, the unit in which 0.02, 0.08 and
\* 0.92 / 81 are whole: 162, 648 and 92.
ProgressScale == 8100

\* progress: 0.02, "Detecting puzzle frame..."
ProgressDetecting == (2 * ProgressScale) \div 100

\* progress: 0.08, "Loading recognition engine..."
ProgressLoading == (8 * ProgressScale) \div 100

\* A report computed from index in place of index + 1.
ProgressAfterCellFromIndex(i) == ProgressLoading + (i * 92 * ProgressScale) \div (CELL_COUNT * 100)

\* progress: 0.08 + ((index + 1) / 81) * 0.92
ProgressAfterCell(i) == ProgressLoading + ((i + 1) * 92 * ProgressScale) \div (CELL_COUNT * 100)

\* How a call of onProgress ends: it returns undefined, returns a value, or
\* throws.
CallbackOutcomes == {"undefined", "value", "throws"}

\* progress(onProgress, state): `callback?.(state)`, for a call that was
\* given a callback (without one nothing is called).  The callback receives
\* state; what it returns is discarded, what it throws propagates.
progress(value, outcome, then) ==
    /\ progressCount' = progressCount + 1
    /\ progressLast' = value
    /\ IF outcome = "throws" THEN Throw("onProgress threw")
                             ELSE rpc' = then /\ err' = err

RecIdle ==
    /\ rpc = "idle"
    /\ err = ""
    /\ detectionBinary = "null"
    /\ corners = "null"
    /\ warpedSource = "null"
    /\ warpedBinary = "null"
    /\ correctedSource = "null"
    /\ correctedBinary = "null"
    /\ profile = "blank"
    /\ rect = NoRect
    /\ workerState = "none"
    /\ outstanding = 0
    /\ index = 0
    /\ detected = EmptyValues
    /\ confidences = ZeroConf
    /\ stats = BlankStats
    /\ gated = FALSE
    /\ calls = 0
    /\ bestDigit = null
    /\ bestConfidence = -1
    /\ primaryResult = NoResult
    /\ fallbackResult = NoResult
    /\ fallbackRan = FALSE
    /\ replaced = FALSE
    /\ result = NoReturn
    /\ progressCount = 0
    /\ progressLast = 0

CellLocalsReset ==
    /\ stats' = BlankStats
    /\ gated' = FALSE
    /\ calls' = 0
    /\ bestDigit' = null
    /\ bestConfidence' = -1
    /\ primaryResult' = NoResult
    /\ fallbackResult' = NoResult
    /\ fallbackRan' = FALSE
    /\ replaced' = FALSE

\* await loadFileToImage(file)
LoadImage ==
    /\ rpc = "load"
    /\ UNCHANGED <<outsideRec, progVars>>
    /\ \E loaded \in BOOLEAN :
          IF loaded THEN rpc' = "canvas" /\ err' = err
                    ELSE Throw("Could not load image")
    /\ UNCHANGED <<geomVars, workerState, outstanding, boardVars, cellVars, result>>

\* The source canvas and its 2d context.
SetupCanvas ==
    /\ rpc = "canvas"
    /\ UNCHANGED outsideRec
    /\ \E context \in BOOLEAN, outcome \in CallbackOutcomes :
          IF context THEN progress(ProgressDetecting, outcome, "frame")
                     ELSE Throw("Canvas context unavailable") /\ UNCHANGED progVars
    /\ UNCHANGED <<geomVars, workerState, outstanding, boardVars, cellVars, result>>

\* createDetectionBinary, the corners (manual, or findGridCorners which may
\* return null) and the two warps.  warpCanvasToSquare returns null when a
\* context is missing or when homographyFrom4Points fails; the homography
\* depends on the corners and the size only, so it fails for both or none.
DetectFrame ==
    /\ rpc = "frame"
    /\ UNCHANGED <<outsideRec, progVars>>
    /\ \E detCtx \in BOOLEAN, manual \in BOOLEAN, found \in BOOLEAN,
          homography \in BOOLEAN, srcCtx \in BOOLEAN, binCtx \in BOOLEAN :
          LET db == IF detCtx THEN "detectionBinary" ELSE "sourceCanvas"
              cs == IF manual \/ found THEN "corners" ELSE "null"
              ws == IF cs # "null" /\ homography /\ srcCtx THEN "warpedSource" ELSE "null"
              wb == IF cs # "null" /\ homography /\ binCtx THEN "warpedBinary" ELSE "null"
          IN  /\ detectionBinary' = db
              /\ corners' = cs
              /\ warpedSource' = ws
              /\ warpedBinary' = wb
              /\ correctedSource' = UseWarped(ws, wb, "sourceCanvas")
              /\ correctedBinary' = UseWarped(wb, ws, db)
    /\ rpc' = "rotate"
    /\ UNCHANGED <<err, profile, rect, workerState, outstanding, boardVars, cellVars, result>>

\* findBestRotationAngle, rotateCanvas (the canvas keeps its size) and
\* estimateGridRect, which returns the full-image square without a context.
EstimateRect ==
    /\ rpc = "rotate"
    /\ UNCHANGED <<outsideRec, progVars>>
    /\ \E kind \in ProfileKinds :
          LET sz == CanvasSize(correctedBinary)
              ink == InkProfile(kind, sz.width, sz.height)
          IN  /\ profile' = kind
              /\ rect' = IF kind # "nocontext"
                            THEN estimateGridRect(sz.width, sz.height, ink.rowHits, ink.colHits)
                            ELSE FullImageSquare(sz.width, sz.height)
    /\ rpc' = "preview"
    /\ UNCHANGED <<err, detectionBinary, corners, warpedSource, warpedBinary,
                   correctedSource, correctedBinary,
                   workerState, outstanding, boardVars, cellVars, result>>

\* The preview canvas and its context.
DrawPreview ==
    /\ rpc = "preview"
    /\ UNCHANGED outsideRec
    /\ \E context \in BOOLEAN, outcome \in CallbackOutcomes :
          IF context THEN progress(ProgressLoading, outcome, "engine")
                     ELSE Throw("Preview canvas failed") /\ UNCHANGED progVars
    /\ UNCHANGED <<geomVars, workerState, outstanding, boardVars, cellVars, result>>

\* await import("tesseract.js"); await tesseract.createWorker("eng")
CreateWorker ==
    /\ rpc = "engine"
    /\ UNCHANGED <<outsideRec, progVars>>
    /\ \E created \in BOOLEAN :
          IF created
             THEN rpc' = "setParameters" /\ err' = err /\ workerState' = "created"
             ELSE Throw("createWorker rejected") /\ workerState' = workerState
    /\ UNCHANGED <<geomVars, outstanding, boardVars, cellVars, result>>

\* await worker.setParameters(...)
SetParameters ==
    /\ rpc = "setParameters"
    /\ UNCHANGED <<outsideRec, progVars>>
    /\ \E resolved \in BOOLEAN :
          IF resolved THEN rpc' = "scratch" /\ err' = err
                      ELSE Throw("setParameters rejected")
    /\ UNCHANGED <<geomVars, workerState, outstanding, boardVars, cellVars, result>>

\* detected, confidences and the scratch canvas; without a context the
\* worker is terminated before the throw.
CreateScratch ==
    /\ rpc = "scratch"
    /\ UNCHANGED <<outsideRec, progVars>>
    /\ detected' = EmptyValues
    /\ confidences' = ZeroConf
    /\ index' = 0
    /\ \E scratchCtx \in BOOLEAN :
          rpc' = IF scratchCtx THEN "cell" ELSE "scratchFailed"
    /\ UNCHANGED <<err, geomVars, workerState, outstanding, cellVars, result>>

\* await worker.terminate(); throw new Error("Scratch canvas failed")
ScratchFailed ==
    /\ rpc = "scratchFailed"
    /\ UNCHANGED <<outsideRec, progVars>>
    /\ workerState' = "terminated"
    /\ Throw("Scratch canvas failed")
    /\ UNCHANGED <<geomVars, outstanding, boardVars, cellVars, result>>

\* Head of the loop body: the crop, prepareCellBinary and the gate.  The
\* canvas calls can throw.
PrepareCell ==
    /\ rpc = "cell"
    /\ UNCHANGED <<outsideRec, progVars>>
    /\ index < CELL_COUNT
    /\ \E st \in (IF index \in InkSet THEN InkStats ELSE {BlankStats}),
          drawn \in (IF index \in InkSet THEN BOOLEAN ELSE {TRUE}) :
          IF drawn
             THEN /\ stats' = st
                  /\ gated' = IsGated(st)
                  /\ rpc' = IF IsGated(st) THEN "finish" ELSE "primary"
                  /\ err' = err
             ELSE /\ Throw("Cell preparation failed")
                  /\ UNCHANGED <<stats, gated>>
    /\ UNCHANGED <<geomVars, workerState, outstanding, boardVars, result,
                   calls, bestDigit, bestConfidence, primaryResult, fallbackResult,
                   fallbackRan, replaced>>

\* worker.recognize(scratch) is called for the primary binarization.
IssuePrimary ==
    /\ rpc = "primary"
    /\ UNCHANGED <<outsideRec, progVars>>
    /\ bestDigit' = null
    /\ bestConfidence' = -1
    /\ calls' = calls + 1
    /\ outstanding' = outstanding + 1
    /\ rpc' = "awaitPrimary"
    /\ UNCHANGED <<err, geomVars, workerState, boardVars, result,
                   stats, gated, primaryResult, fallbackResult, fallbackRan, replaced>>

\* The primary request settles.
ResolvePrimary ==
    /\ rpc = "awaitPrimary"
    /\ UNCHANGED <<outsideRec, progVars>>
    /\ outstanding' = AfterAwait(outstanding)
    /\ \E settled \in ClassifierResults \cup {NoResult} :
          IF settled = NoResult
             THEN /\ Throw("recognize rejected")
                  /\ UNCHANGED <<primaryResult, bestDigit, bestConfidence>>
             ELSE /\ primaryResult' = settled
                  /\ bestDigit' = settled.digit
                  /\ bestConfidence' = IF settled.digit # null THEN settled.confidence
                                                              ELSE bestConfidence
                  /\ rpc' = IF NeedsFallback(bestDigit', bestConfidence')
                               THEN "fallback" ELSE "accept"
                  /\ err' = err
    /\ UNCHANGED <<geomVars, workerState, boardVars, result,
                   stats, gated, calls, fallbackResult, fallbackRan, replaced>>

\* prepareCellBinary for the fallback and the second recognize call.
IssueFallback ==
    /\ rpc = "fallback"
    /\ UNCHANGED <<outsideRec, progVars>>
    /\ fallbackRan' = TRUE
    /\ calls' = calls + 1
    /\ outstanding' = outstanding + 1
    /\ rpc' = "awaitFallback"
    /\ UNCHANGED <<err, geomVars, workerState, boardVars, result,
                   stats, gated, bestDigit, bestConfidence, primaryResult,
                   fallbackResult, replaced>>

\* The fallback request settles.
ResolveFallback ==
    /\ rpc = "awaitFallback"
    /\ UNCHANGED <<outsideRec, progVars>>
    /\ outstanding' = AfterAwait(outstanding)
    /\ \E settled \in ClassifierResults \cup {NoResult} :
          IF settled = NoResult
             THEN /\ Throw("recognize rejected")
                  /\ UNCHANGED <<fallbackResult, bestDigit, bestConfidence, replaced>>
             ELSE /\ fallbackResult' = settled
                  /\ replaced' = FallbackWins(settled, bestConfidence)
                  /\ bestDigit' = IF FallbackWins(settled, bestConfidence)
                                     THEN settled.digit ELSE bestDigit
                  /\ bestConfidence' = IF FallbackWins(settled, bestConfidence)
                                          THEN settled.confidence ELSE bestConfidence
                  /\ rpc' = "accept"
                  /\ err' = err
    /\ UNCHANGED <<geomVars, workerState, boardVars, result,
                   stats, gated, calls, primaryResult, fallbackRan>>

\* `if (bestDigit && bestConfidence > 16)`
AcceptCell ==
    /\ rpc = "accept"
    /\ UNCHANGED <<outsideRec, progVars>>
    /\ IF Accepts(bestDigit, bestConfidence)
          THEN /\ detected' = [detected EXCEPT ![index] = bestDigit]
               /\ confidences' = [confidences EXCEPT ![index] = bestConfidence]
          ELSE UNCHANGED <<detected, confidences>>
    /\ rpc' = "finish"
    /\ UNCHANGED <<err, geomVars, workerState, outstanding, index, cellVars, result>>

\* The progress report that ends an iteration (gated or classified), the
\* end of the iteration's scope and index += 1.
FinishCell ==
    /\ rpc = "finish"
    /\ UNCHANGED outsideRec
    /\ \E outcome \in CallbackOutcomes :
          /\ progress(ProgressAfterCell(index), outcome,
                      IF index + 1 < CELL_COUNT THEN "cell" ELSE "terminate")
          /\ IF outcome = "throws"
                THEN UNCHANGED <<index, cellVars>>
                ELSE index' = index + 1 /\ CellLocalsReset
    /\ UNCHANGED <<geomVars, workerState, outstanding, detected, confidences, result>>

\* await worker.terminate() after the loop.
TerminateWorker ==
    /\ rpc = "terminate"
    /\ UNCHANGED <<outsideRec, progVars>>
    /\ workerState' = "terminated"
    /\ rpc' = "prune"
    /\ UNCHANGED <<err, geomVars, outstanding, boardVars, cellVars, result>>

\* pruneConflictingDetections(detected, confidences) and the return.
PruneAndReturn ==
    /\ rpc = "prune"
    /\ UNCHANGED <<outsideRec, progVars>>
    /\ LET pruned == pruneConflictingDetections(detected, confidences)
       IN  result' = [values |-> pruned.values, droppedConflicts |-> pruned.dropped]
    /\ rpc' = "done"
    /\ UNCHANGED <<err, geomVars, workerState, outstanding, boardVars, cellVars>>

NoCall == [fn |-> "none"]

LibIdle == lpc = "idle" /\ libCall = NoCall /\ libRet = "none"

\* The library function returns value.
Return(value) == lpc' = "returned" /\ libRet' = value /\ UNCHANGED <<libCall, outsideLib>>

(***************************************************************************)
(* lib/sudoku: toRowCol, inSameUnit, getPeers                              *)
(***************************************************************************)
BOARD_SIZE == 9

toRowCol(i) == [row |-> i \div BOARD_SIZE, col |-> i % BOARD_SIZE]

inSameUnit(a, b) ==
    LET aPos == toRowCol(a)
        bPos == toRowCol(b)
    IN  IF aPos.row = bPos.row \/ aPos.col = bPos.col
           THEN TRUE
           ELSE /\ aPos.row \div 3 = bPos.row \div 3
                /\ aPos.col \div 3 = bPos.col \div 3

\* The indices 0..80 in the order of the scan.
CellSeq == [k \in 1 .. CELL_COUNT |-> k - 1]

\* getPeers without the `i !== index` test.
getPeersWithSelf(cell) == SelectSeq(CellSeq, LAMBDA i : inSameUnit(cell, i))

\* getPeers(index): the array of peers in ascending order.
getPeers(cell) == SelectSeq(CellSeq, LAMBDA i : i # cell /\ inSameUnit(cell, i))

PeerCalls ==
    {[fn |-> "inSameUnit", a |-> a, b |-> b] : a \in Cells, b \in Cells}
        \cup {[fn |-> "getPeers", a |-> a, b |-> b] : a \in Cells, b \in Cells}

InSameUnit ==
    /\ lpc = "called"
    /\ libCall.fn = "inSameUnit"
    /\ Return(inSameUnit(libCall.a, libCall.b))

\* getPeers(a); b is a second index the result is looked up for.
GetPeers ==
    /\ lpc = "called"
    /\ libCall.fn = "getPeers"
    /\ Return(getPeers(libCall.a))

PeersNext == InSameUnit \/ GetPeers

(***************************************************************************)
(* lib/sudoku-fixtures: parseExpectedGrid                                  *)
(***************************************************************************)
\* Number of characters of a grid string that are varied.
ParseCells == 2

\* Positions (1-based) of the varied characters in the 81-character body.
ParseAt == <<1, 81, 41, 2>>

\* The characters used, with their UTF-16 code units: "/" and ":" are the
\* neighbours of "0" and "9".
CodeOf ==
    [c \in {" ", "\n", ".", "/", "0", "1", "9", ":", "x"} |->
        CASE c = " " -> 32 [] c = "\n" -> 10 [] c = "." -> 46 [] c = "/" -> 47
          [] c = "0" -> 48 [] c = "1" -> 49 [] c = "9" -> 57 [] c = ":" -> 58
          [] OTHER -> 120]

Chars == DOMAIN CodeOf

\* What String.prototype.trim strips, among Chars.
Whitespace == {" ", "\n"}

\* grid.trim()
trim(str) ==
    LET keep == {k \in 1 .. Len(str) : str[k] \notin Whitespace}
    IN  IF keep = {} THEN <<>>
        ELSE SubSeq(str, CHOOSE k \in keep : \A m \in keep : k <= m,
                         CHOOSE k \in keep : \A m \in keep : k >= m)

\* `char >= "1" && char <= "9"`, a comparison of code units.
IsDigitChar(c) == CodeOf[c] >= CodeOf["1"] /\ CodeOf[c] <= CodeOf["9"]

\* `char === "."` alone.
IsUnknownCharDotOnly(c) == c = "."

\* `char === "." || char === "0"`
IsUnknownChar(c) == c = "." \/ c = "0"

\* Number.parseInt(char, 10) of a digit character.
parseInt(c) == CodeOf[c] - CodeOf["0"]

\* parseExpectedGrid(grid): the values, or the error thrown (the length
\* error, or the error of the first invalid character).
parseExpectedGrid(grid) ==
    LET normalized == trim(grid)
        invalid == {i \in 0 .. 80 : Len(normalized) = 81
                                      /\ ~IsDigitChar(normalized[i + 1])
                                      /\ ~IsUnknownChar(normalized[i + 1])}
    IN  IF Len(normalized) # 81
           THEN [threw |-> TRUE, error |-> "length", received |-> Len(normalized)]
        ELSE IF invalid # {}
           THEN [threw |-> TRUE, error |-> "character",
                 received |-> CHOOSE i \in invalid : \A j \in invalid : i <= j]
        ELSE [threw |-> FALSE,
              values |-> [i \in Cells |->
                            IF IsDigitChar(normalized[i + 1])
                               THEN parseInt(normalized[i + 1]) ELSE null]]

\* Grid strings: a body of "." with ParseCells varied characters, with or
\* without its last character, between optional padding.
GridStrings ==
    LET active == {ParseAt[k] : k \in 1 .. ParseCells}
    IN  {pre \o SubSeq([k \in 1 .. 81 |-> IF k \in active THEN f[k] ELSE "."], 1, len) \o post :
            f \in [active -> Chars], len \in {80, 81},
            pre \in {<<>>, <<" ">>}, post \in {<<>>, <<"\n">>, <<"1">>}}

ParseCalls == {[fn |-> "parseExpectedGrid", grid |-> g] : g \in GridStrings}

ParseExpectedGrid ==
    /\ lpc = "called"
    /\ libCall.fn = "parseExpectedGrid"
    /\ LET parsed == parseExpectedGrid(libCall.grid)
       IN  IF parsed.threw
              THEN /\ lpc' = "thrown"
                   /\ libRet' = parsed
                   /\ UNCHANGED <<libCall, outsideLib>>
              ELSE Return(parsed.values)

(***************************************************************************)
(* lib/sudoku-fixtures: scoreRecognition, transformGrid, bestAlignment     *)
(***************************************************************************)
\* Number of cells of a grid that are varied.
AlignCells == 3

\* The varied cells: two opposite corners and the centre first, which
\* rotate180 maps onto themselves, then the other corners.
AlignAt == <<0, 80, 40, 8, 72>>

\* What a varied cell holds.
GridValues == {null, 1, 9}

Grids ==
    LET active == {AlignAt[k] : k \in 1 .. AlignCells}
    IN  {[i \in Cells |-> IF i \in active THEN f[i] ELSE null] : f \in [active -> GridValues]}

\* matchedExpected / totalExpected as the fraction num / den; two such
\* quotients of counts up to 81 are equal, or ordered, as doubles exactly
\* when they are as fractions.
Quotient(m, t) == [num |-> m, den |-> t]

AccuracyGreater(x, y) == x.num * y.den > y.num * x.den

AccuracyEqual(x, y) == x.num * y.den = y.num * x.den

\* falsePositives counting every non-null cell of actual.
FalsePositivesAllActual(expected, actual) ==
    Cardinality({i \in Cells : actual[i] # null})

\* `actual[i] !== null && actual[i] !== expected[i]`
FalsePositives(expected, actual) ==
    Cardinality({i \in Cells : actual[i] # null /\ actual[i] # expected[i]})

scoreRecognition(expected, actual) ==
    LET totalExpected == Cardinality({i \in Cells : expected[i] # null})
        matchedExpected ==
            Cardinality({i \in Cells : expected[i] # null /\ actual[i] = expected[i]})
    IN  [totalExpected |-> totalExpected,
         matchedExpected |-> matchedExpected,
         falsePositives |-> FalsePositives(expected, actual),
         accuracy |-> IF totalExpected = 0 THEN Quotient(0, 1)
                                           ELSE Quotient(matchedExpected, totalExpected)]

\* sourceForTransform with rotate180 keeping the column.
sourceForTransformKeepsCol(row, col, transform) ==
    CASE transform = "identity" -> [sourceRow |-> row, sourceCol |-> col]
      [] transform = "rotate90" -> [sourceRow |-> 8 - col, sourceCol |-> row]
      [] transform = "rotate180" -> [sourceRow |-> 8 - row, sourceCol |-> col]
      [] transform = "rotate270" -> [sourceRow |-> col, sourceCol |-> 8 - row]
      [] transform = "flipH" -> [sourceRow |-> row, sourceCol |-> 8 - col]
      [] transform = "flipV" -> [sourceRow |-> 8 - row, sourceCol |-> col]
      [] transform = "transpose" -> [sourceRow |-> col, sourceCol |-> row]
      [] OTHER -> [sourceRow |-> 8 - col, sourceCol |-> 8 - row]

sourceForTransform(row, col, transform) ==
    CASE transform = "identity" -> [sourceRow |-> row, sourceCol |-> col]
      [] transform = "rotate90" -> [sourceRow |-> 8 - col, sourceCol |-> row]
      [] transform = "rotate180" -> [sourceRow |-> 8 - row, sourceCol |-> 8 - col]
      [] transform = "rotate270" -> [sourceRow |-> col, sourceCol |-> 8 - row]
      [] transform = "flipH" -> [sourceRow |-> row, sourceCol |-> 8 - col]
      [] transform = "flipV" -> [sourceRow |-> 8 - row, sourceCol |-> col]
      [] transform = "transpose" -> [sourceRow |-> col, sourceCol |-> row]
      [] OTHER -> [sourceRow |-> 8 - col, sourceCol |-> 8 - row]

transformGrid(values, transform) ==
    [i \in Cells |->
        LET src == sourceForTransform(i \div 9, i % 9, transform)
        IN  values[src.sourceRow * 9 + src.sourceCol]]

transforms ==
    <<"identity", "rotate90", "rotate180", "rotate270",
      "flipH", "flipV", "transpose", "antiTranspose">>

\* The replacement test with `<=` on the false positives: a later
\* transform replaces an equally good one.
ReplacesBestOnTie(score, best) ==
    \/ AccuracyGreater(score.accuracy, best.accuracy)
    \/ (AccuracyEqual(score.accuracy, best.accuracy)
          /\ score.falsePositives <= best.falsePositives)

\* `score.accuracy > best.accuracy || (score.accuracy === best.accuracy &&
\* score.falsePositives < best.falsePositives)`
ReplacesBest(score, best) ==
    \/ AccuracyGreater(score.accuracy, best.accuracy)
    \/ (AccuracyEqual(score.accuracy, best.accuracy)
          /\ score.falsePositives < best.falsePositives)

WithTransform(transform, score) ==
    [transform |-> transform,
     totalExpected |-> score.totalExpected,
     matchedExpected |-> score.matchedExpected,
     falsePositives |-> score.falsePositives,
     accuracy |-> score.accuracy]

\* The for loop of bestAlignment from the k-th transform on.
RECURSIVE AlignLoop(_, _, _, _)
AlignLoop(expected, actual, k, best) ==
    IF k > Len(transforms) THEN best
    ELSE LET score == scoreRecognition(expected, transformGrid(actual, transforms[k]))
         IN  AlignLoop(expected, actual, k + 1,
                       IF ReplacesBest(score, best)
                          THEN WithTransform(transforms[k], score) ELSE best)

bestAlignment(expected, actual) ==
    AlignLoop(expected, actual, 1,
              WithTransform("identity", scoreRecognition(expected, actual)))

ScoreCalls ==
    {[fn |-> "scoreRecognition", expected |-> e, actual |-> a] : e \in Grids, a \in Grids}

AlignCalls ==
    {[fn |-> "bestAlignment", expected |-> e, actual |-> a] : e \in Grids, a \in Grids}

ScoreRecognition ==
    /\ lpc = "called"
    /\ libCall.fn = "scoreRecognition"
    /\ Return(scoreRecognition(libCall.expected, libCall.actual))

BestAlignment ==
    /\ lpc = "called"
    /\ libCall.fn = "bestAlignment"
    /\ Return(bestAlignment(libCall.expected, libCall.actual))

(***************************************************************************)
(* components/SudokuFixtureRunner: runFixture, runAll                      *)
(***************************************************************************)
\* Number of enabled fixtures in sudokuFixtures (two in the repository).
FixtureCount == 2

\* Clicks on "Run" buttons and on "Run all fixtures" that are followed.
MaxClicks == 1

MaxBatches == 1

\* sudokuFixtures.filter((fixture) => fixture.enabled !== false): the ids,
\* numbered from 1.
enabledFixtures == [k \in 1 .. FixtureCount |-> k]

RunnerIdle ==
    /\ running = FALSE
    /\ activeId = null
    /\ results = <<>>
    /\ runs = <<>>
    /\ batchPos = 0
    /\ batches = 0
    /\ clicks = 0

\* [...prev, entry]
WithResultAppended(prev, entry) == prev \o <<entry>>

\* [...prev.filter((result) => result.fixtureId !== fixture.id), entry]
WithResult(prev, entry) ==
    SelectSeq(prev, LAMBDA r : r.fixtureId # entry.fixtureId) \o <<entry>>

\* The catch block: the entry of a failed run; cause is the step that threw.
ErrorResult(fixture, cause) == [fixtureId |-> fixture, status |-> "error", cause |-> cause]

\* The statuses a scored recognition can get.
ScoreStatuses == {"pass", "warn", "error"}

\* runFixture(fixture) up to its first await, called by owner ("all" or
\* "button"), given the state setters' pending results prev: setActiveId,
\* parseExpectedGrid and the call of fetchFixtureFile; when the grid does
\* not parse, the catch and finally blocks.
StartRun(fixture, owner, prev) ==
    \E parsed \in BOOLEAN :
        IF parsed
           THEN /\ activeId' = fixture
                /\ runs' = Append(runs, [fixture |-> fixture, owner |-> owner, at |-> "fetch"])
                /\ results' = prev
           ELSE /\ activeId' = null
                /\ runs' = Append(runs, [fixture |-> fixture, owner |-> owner, at |-> "done"])
                /\ results' = WithResult(prev, ErrorResult(fixture, "parse"))

\* onClick of a fixture's "Run" button, which is rendered for enabled
\* fixtures and disabled while running or while activeId is the fixture.
ClickRun ==
    /\ clicks < MaxClicks
    /\ \E k \in 1 .. FixtureCount :
          /\ ~(running \/ activeId = enabledFixtures[k])
          /\ StartRun(enabledFixtures[k], "button", results)
    /\ clicks' = clicks + 1
    /\ UNCHANGED <<running, batchPos, batches, outsideRunner>>

\* onClick of "Run all fixtures", disabled while running: setRunning(true),
\* setResults([]) and the first iteration up to its await.
ClickRunAll ==
    /\ batches < MaxBatches
    /\ ~(running \/ FixtureCount = 0)
    /\ running' = TRUE
    /\ StartRun(enabledFixtures[1], "all", <<>>)
    /\ batchPos' = 1
    /\ batches' = batches + 1
    /\ UNCHANGED <<clicks, outsideRunner>>

\* The awaited fetch and blob of the n-th runFixture call settle; the call
\* goes on to recognizeSudokuFromImageFile, or to catch and finally.
FetchSettles ==
    /\ \E n \in 1 .. Len(runs) :
          /\ runs[n].at = "fetch"
          /\ \E ok \in BOOLEAN :
                IF ok
                   THEN /\ runs' = [runs EXCEPT ![n].at = "recognize"]
                        /\ UNCHANGED <<results, activeId>>
                   ELSE /\ runs' = [runs EXCEPT ![n].at = "done"]
                        /\ results' = WithResult(results, ErrorResult(runs[n].fixture, "fetch"))
                        /\ activeId' = null
    /\ UNCHANGED <<running, batchPos, batches, clicks, outsideRunner>>

\* The awaited recognizeSudokuFromImageFile of the n-th call settles: the
\* scored entry, or catch; then finally.
RecognizeSettles ==
    /\ \E n \in 1 .. Len(runs) :
          /\ runs[n].at = "recognize"
          /\ runs' = [runs EXCEPT ![n].at = "done"]
          /\ \E entry \in {ErrorResult(runs[n].fixture, "recognize")}
                           \cup {[fixtureId |-> runs[n].fixture, status |-> st, cause |-> "score"]
                                   : st \in ScoreStatuses} :
                results' = WithResult(results, entry)
    /\ activeId' = null
    /\ UNCHANGED <<running, batchPos, batches, clicks, outsideRunner>>

\* The runFixture call runAll awaits has ended.
BatchRunEnded ==
    \A n \in 1 .. Len(runs) : runs[n].owner = "all" => runs[n].at = "done"

\* runAll after its await: the next iteration up to its await.
RunAllNext ==
    /\ running
    /\ BatchRunEnded
    /\ batchPos < FixtureCount
    /\ StartRun(enabledFixtures[batchPos + 1], "all", results)
    /\ batchPos' = batchPos + 1
    /\ UNCHANGED <<running, batches, clicks, outsideRunner>>

\* runAll after the loop: setRunning(false).
RunAllDone ==
    /\ running
    /\ BatchRunEnded
    /\ batchPos = FixtureCount
    /\ running' = FALSE
    /\ batchPos' = 0
    /\ UNCHANGED <<activeId, results, runs, batches, clicks, outsideRunner>>

RunnerNext ==
    \/ ClickRun
    \/ ClickRunAll
    \/ FetchSettles
    \/ RecognizeSettles
    \/ RunAllNext
    \/ RunAllDone

(***************************************************************************)
(* otsuThreshold                                                           *)
(***************************************************************************)
\* Largest number of pixels of a gray array.
OtsuPixels == 5

\* Intensities the pixels take.
OtsuLevels == {0, 10, 127, 128, 240, 255}

RECURSIVE SumSeq(_)
SumSeq(q) == IF q = <<>> THEN 0 ELSE Head(q) + SumSeq(Tail(q))

\* otsuThreshold(grayPixels).  For each t the loop reaches with wB > 0 and
\* wF > 0, between = wB * wF * (mB - mF)^2 is kept as the fraction
\* num / den = (sumB * wF - (sum - sumB) * wB)^2 / (wB * wF); iterations with
\* equal wB and sumB compute the same double, so `between > maxVariance`
\* is the comparison of the fractions.  The threshold is the first t whose
\* between exceeds every earlier one, 128 if none exceeds 0.
otsuThreshold(grayPixels) ==
    LET total == Len(grayPixels)
        sum == SumSeq(grayPixels)
        steps == {[t |-> t,
                   wB |-> Cardinality({k \in 1 .. total : grayPixels[k] <= t}),
                   sumB |-> SumSeq(SelectSeq(grayPixels, LAMBDA v : v <= t))]
                    : t \in 0 .. 255}
        scored == {[t |-> s.t,
                    num |-> (s.sumB * (total - s.wB) - (sum - s.sumB) * s.wB)
                              * (s.sumB * (total - s.wB) - (sum - s.sumB) * s.wB),
                    den |-> s.wB * (total - s.wB)]
                     : s \in {x \in steps : x.wB > 0 /\ total - x.wB > 0}}
        improving == {s \in scored : s.num > 0}
    IN  IF improving = {} THEN 128
        ELSE (CHOOSE s \in improving : \A u \in improving :
                 \/ u.num * s.den < s.num * u.den
                 \/ (u.num * s.den = s.num * u.den /\ u.t >= s.t)).t

\* Gray arrays of one intensity, and of two intensities a < b.
OtsuCalls ==
    {c \in {[fn |-> "otsuThreshold",
             grayPixels |-> [k \in 1 .. na + nb |-> IF k <= na THEN a ELSE b]]
               : a \in OtsuLevels, b \in OtsuLevels,
                 na \in 1 .. OtsuPixels, nb \in 0 .. OtsuPixels - 1}
        : Len(c.grayPixels) <= OtsuPixels}

OtsuThreshold ==
    /\ lpc = "called"
    /\ libCall.fn = "otsuThreshold"
    /\ Return(otsuThreshold(libCall.grayPixels))

OtsuNext == OtsuThreshold

(***************************************************************************)
(* solveLinearSystem8, homographyFrom4Points, warpCanvasToSquare           *)
(***************************************************************************)
\* Largest `size` a warp is called with.
WarpSizeMax == 3

\* Width and height of the source canvas.
WarpSourceWidth == 3

WarpSourceHeight == 2

\* Number of source canvases.
WarpSources == 2

\* The numbers of the solver are kept exactly, as reduced fractions n / d
\* with d > 0.
RECURSIVE Gcd(_, _)
Gcd(a, b) == IF b = 0 THEN a ELSE Gcd(b, a % b)

Frac(n, d) ==
    LET g == Gcd(Abs(n), Abs(d))
        s == IF d < 0 THEN -1 ELSE 1
    IN  [n |-> (s * n) \div g, d |-> (s * d) \div g]

Whole(k) == [n |-> k, d |-> 1]

FracAdd(a, b) == Frac(a.n * b.d + b.n * a.d, a.d * b.d)

FracSub(a, b) == Frac(a.n * b.d - b.n * a.d, a.d * b.d)

FracMul(a, b) == Frac(a.n * b.n, a.d * b.d)

FracDiv(a, b) == Frac(a.n * b.d, a.d * b.n)

\* Math.abs(a) > Math.abs(b)
AbsGreater(a, b) == Abs(a.n) * b.d > Abs(b.n) * a.d

\* `Math.abs(a) < 1e-9` of an exact number: a is 0.
Negligible(a) == a.n = 0

\* Math.round(a): the floor of a + 1/2.
Round(a) == (2 * a.n + a.d) \div (2 * a.d)

\* The first row from col on whose entry in col is largest in absolute value.
PivotRow(a, col) ==
    CHOOSE p \in col .. 8 :
        \A r \in col .. 8 : /\ ~AbsGreater(a[r][col], a[p][col])
                            /\ (r < p => AbsGreater(a[p][col], a[r][col]))

\* The body of solveLinearSystem8's loop from column col on (columns and
\* rows numbered from 1), on the augmented matrix a.
RECURSIVE Eliminate(_, _)
Eliminate(a, col) ==
    IF col > 8 THEN [solved |-> TRUE, solution |-> [k \in 1 .. 8 |-> a[k][9]]]
    ELSE LET pivot == PivotRow(a, col)
             swapped == [a EXCEPT ![col] = a[pivot], ![pivot] = a[col]]
             pivotValue == swapped[col][col]
             pivotRow == [j \in 1 .. 9 |->
                             IF j >= col THEN FracDiv(swapped[col][j], pivotValue)
                                         ELSE swapped[col][j]] \o <<>>
             reduced == [row \in 1 .. 8 |->
                            IF row = col THEN pivotRow
                            ELSE [j \in 1 .. 9 |->
                                     IF j >= col
                                        THEN FracSub(swapped[row][j],
                                                     FracMul(swapped[row][col], pivotRow[j]))
                                        ELSE swapped[row][j]] \o <<>>] \o <<>>
         IN  IF Negligible(a[pivot][col]) THEN [solved |-> FALSE]
             ELSE Eliminate(reduced, col + 1)

solveLinearSystem8(matrix, vector) ==
    Eliminate([i \in 1 .. 8 |-> Append(matrix[i], vector[i])], 1)

\* homographyFrom4Points(src, dst): the two rows and the two right-hand
\* sides of each of the four point pairs, then the solution with h[8] = 1
\* (here h[9]).
homographyFrom4Points(src, dst) ==
    LET rowX(i) == <<Whole(src[i].x), Whole(src[i].y), Whole(1),
                     Whole(0), Whole(0), Whole(0),
                     Whole(-(dst[i].x * src[i].x)), Whole(-(dst[i].x * src[i].y))>>
        rowY(i) == <<Whole(0), Whole(0), Whole(0),
                     Whole(src[i].x), Whole(src[i].y), Whole(1),
                     Whole(-(dst[i].y * src[i].x)), Whole(-(dst[i].y * src[i].y))>>
        matrix == [k \in 1 .. 8 |-> IF k % 2 = 1 THEN rowX((k + 1) \div 2) ELSE rowY(k \div 2)]
        vector == [k \in 1 .. 8 |-> IF k % 2 = 1 THEN Whole(dst[(k + 1) \div 2].x)
                                                 ELSE Whole(dst[k \div 2].y)]
        solved == solveLinearSystem8(matrix, vector)
    IN  IF solved.solved THEN [solved |-> TRUE, h |-> Append(solved.solution, Whole(1))]
                         ELSE solved

\* A pixel of createImageData before anything is written: transparent black.
Unwritten == [r |-> 0, g |-> 0, b |-> 0, a |-> 0]

White == [r |-> 255, g |-> 255, b |-> 255, a |-> 255]

\* h[a] * x + h[b] * y + h[c]
Along(h, a, b, c, x, y) ==
    FracAdd(FracAdd(FracMul(h[a], Whole(x)), FracMul(h[b], Whole(y))), h[c])

\* One iteration of the pixel loop: what outData holds at (x, y) after it.
WarpPixel(source, h, x, y) ==
    LET denom == Along(h, 7, 8, 9, x, y)
        ix == Round(FracDiv(Along(h, 1, 2, 3, x, y), denom))
        iy == Round(FracDiv(Along(h, 4, 5, 6, x, y), denom))
    IN  IF Negligible(denom) THEN Unwritten
        ELSE IF ix < 0 \/ iy < 0 \/ ix >= source.width \/ iy >= source.height
           THEN White
        ELSE [source.data[iy * source.width + ix] EXCEPT !.a = 255]

NullCanvas == [isNull |-> TRUE]

\* warpCanvasToSquare(source, corners, size); hasContexts is whether both
\* getContext calls gave a context.
warpCanvasToSquare(source, quad, size, hasContexts) ==
    LET srcQuad == <<quad.topLeft, quad.topRight, quad.bottomRight, quad.bottomLeft>>
        dstQuad == <<[x |-> 0, y |-> 0], [x |-> size - 1, y |-> 0],
                     [x |-> size - 1, y |-> size - 1], [x |-> 0, y |-> size - 1]>>
        hom == homographyFrom4Points(dstQuad, srcQuad)
    IN  IF ~hasContexts THEN NullCanvas
        ELSE IF ~hom.solved THEN NullCanvas
        ELSE [isNull |-> FALSE, width |-> size, height |-> size,
              data |-> [p \in 0 .. size * size - 1 |->
                           WarpPixel(source, hom.h, p % size, p \div size)]]

Point(x, y) == [x |-> x, y |-> y]

Quad(tl, tr, br, bl) == [topLeft |-> tl, topRight |-> tr, bottomRight |-> br, bottomLeft |-> bl]

\* Corner sets: the whole source, a frame around it, a trapezoid, one point
\* four times, and corners given in crossing or concave order.
WarpQuads ==
    {Quad(Point(0, 0), Point(WarpSourceWidth - 1, 0),
          Point(WarpSourceWidth - 1, WarpSourceHeight - 1), Point(0, WarpSourceHeight - 1)),
     Quad(Point(-1, -1), Point(WarpSourceWidth, -1),
          Point(WarpSourceWidth, WarpSourceHeight), Point(-1, WarpSourceHeight)),
     Quad(Point(0, 0), Point(2, 0), Point(1, 1), Point(0, 1)),
     Quad(Point(1, 1), Point(1, 1), Point(1, 1), Point(1, 1)),
     Quad(Point(0, 0), Point(0, 1), Point(1, 0), Point(1, 1)),
     Quad(Point(0, 0), Point(0, 1), Point(1, 0), Point(2, 1)),
     Quad(Point(0, 0), Point(2, 0), Point(0, 1), Point(2, 1)),
     Quad(Point(0, 0), Point(0, 1), Point(2, 0), Point(1, 1))}

\* Source canvases whose pixels differ from one another, from white and
\* from an unwritten pixel, some of them translucent.
WarpSourceCanvases ==
    {[width |-> WarpSourceWidth, height |-> WarpSourceHeight,
      data |-> [p \in 0 .. WarpSourceWidth * WarpSourceHeight - 1 |->
                   [r |-> 40 * k + p, g |-> 7 * p + k, b |-> p,
                    a |-> IF (p + k) % 2 = 0 THEN 255 ELSE 100]]]
        : k \in 1 .. WarpSources}

WarpCalls ==
    {[fn |-> "warpCanvasToSquare", source |-> s, corners |-> q, size |-> n, hasContexts |-> c]
        : s \in WarpSourceCanvases, q \in WarpQuads, n \in 2 .. WarpSizeMax, c \in BOOLEAN}

WarpCanvasToSquare ==
    /\ lpc = "called"
    /\ libCall.fn = "warpCanvasToSquare"
    /\ Return(warpCanvasToSquare(libCall.source, libCall.corners, libCall.size,
                                 libCall.hasContexts))

WarpNext == WarpCanvasToSquare

(***************************************************************************)
(* estimateGridRect as a function of the canvas                            *)
(***************************************************************************)
\* A canvas is drawn as a dark block x0 .. x1 by y0 .. y1 (none when
\* x1 < x0 or y1 < y0) and a stroke: the last row dark, the last column
\* dark, or nothing.  IsDark: `lum < 135` of the pixel at (x, y).
IsDark(canvas, x, y) ==
    \/ /\ canvas.x0 <= x /\ x <= canvas.x1
       /\ canvas.y0 <= y /\ y <= canvas.y1
    \/ (canvas.stroke = "row" /\ y = canvas.height - 1)
    \/ (canvas.stroke = "col" /\ x = canvas.width - 1)

\* The pixel loop of estimateGridRect: each dark pixel adds one to
\* rowHits[y] and to colHits[x].
CountHits(canvas) ==
    [rowHits |-> [y \in 0 .. canvas.height - 1 |->
                     Cardinality({x \in 0 .. canvas.width - 1 : IsDark(canvas, x, y)})],
     colHits |-> [x \in 0 .. canvas.width - 1 |->
                     Cardinality({y \in 0 .. canvas.height - 1 : IsDark(canvas, x, y)})]]

\* estimateGridRect(canvas): the full-image square without a 2d context,
\* else the rectangle found from the hit counts.
estimateGridRectOfCanvas(canvas) ==
    LET hits == CountHits(canvas)
    IN  IF ~canvas.hasContext
           THEN FullImageSquare(canvas.width, canvas.height)
           ELSE estimateGridRect(canvas.width, canvas.height, hits.rowHits, hits.colHits)

\* Canvas sizes: the source canvas, the same turned, and one pixel.
RectSizes ==
    {[width |-> SourceWidth, height |-> SourceHeight],
     [width |-> SourceHeight, height |-> SourceWidth],
     [width |-> 1, height |-> 1]}

\* Canvases of one size: the block starts near the top left corner.
RectCanvasesOf(sz) ==
    {[width |-> sz.width, height |-> sz.height, hasContext |-> ctx,
      x0 |-> x0, x1 |-> x1, y0 |-> y0, y1 |-> y1, stroke |-> stroke]
        : ctx \in BOOLEAN,
          x0 \in {0, MinOf2(2, sz.width - 1)}, x1 \in -1 .. sz.width - 1,
          y0 \in {0, MinOf2(1, sz.height - 1)}, y1 \in -1 .. sz.height - 1,
          stroke \in {"none", "row", "col"}}

RectCalls ==
    {[fn |-> "estimateGridRect", canvas |-> c]
        : c \in UNION {RectCanvasesOf(sz) : sz \in RectSizes}}

EstimateGridRect ==
    /\ lpc = "called"
    /\ libCall.fn = "estimateGridRect"
    /\ Return(estimateGridRectOfCanvas(libCall.canvas))

RectNext == EstimateGridRect

(***************************************************************************)
(* removeBorderConnectedInk                                                *)
(***************************************************************************)
\* Width and height of the image, and the largest number of ink pixels of
\* the images taken with every placement of their ink.
FloodWidth == 4

FloodHeight == 4

FloodInkMax == 2

FloodPixels == 0 .. FloodWidth * FloodHeight - 1

\* imageData of an image whose ink pixels are ink: red below 128 on ink
\* (0 or 127), at least 128 elsewhere (128 or 255).
FloodImage(ink) ==
    [idx \in FloodPixels |->
        LET level == IF idx \in ink THEN (IF idx % 2 = 0 THEN 0 ELSE 127)
                                    ELSE (IF idx % 2 = 0 THEN 255 ELSE 128)
        IN  [r |-> level, g |-> level, b |-> level]]

\* Images with more ink: a stroke from the top border into the interior
\* beside a pixel it does not touch, the frame of border pixels with a pixel
\* hanging from it, the interior alone, and ink everywhere.
FloodShapes ==
    LET at(x, y) == y * FloodWidth + x
        frame == {idx \in FloodPixels :
                     \/ idx % FloodWidth \in {0, FloodWidth - 1}
                     \/ idx \div FloodWidth \in {0, FloodHeight - 1}}
    IN  {{at(1, 0), at(1, 1), at(2, 2)},
         frame \cup {at(1, 1)},
         FloodPixels \ frame,
         FloodPixels}

FloodCalls ==
    {[fn |-> "removeBorderConnectedInk", data |-> FloodImage(ink),
      width |-> FloodWidth, height |-> FloodHeight]
        : ink \in {s \in SUBSET FloodPixels : Cardinality(s) <= FloodInkMax}
                    \cup FloodShapes}

\* enqueueIfBlack without the test of visited.
enqueueIfBlackRevisits(st, marked, x, y, width, height) ==
    /\ ~(x < 0 \/ y < 0 \/ x >= width \/ y >= height)
    /\ ~(st.data[y * width + x].r >= 128)

\* Whether enqueueIfBlack(x, y) marks and pushes its pixel: none of its
\* three early returns is taken.  marked is visited[idx] at the call.
enqueueIfBlack(st, marked, x, y, width, height) ==
    /\ ~(x < 0 \/ y < 0 \/ x >= width \/ y >= height)
    /\ ~marked
    /\ ~(st.data[y * width + x].r >= 128)

\* The calls enqueueIfBlack(x, y) for the points of at, in order, on the
\* locals st (data, visited, queue, and pushes: the number of times each
\* index was pushed).  A pixel is marked at the k-th call when it was
\* visited before the calls or pushed by one of the calls before the k-th.
EnqueueAll(st, at, width, height) ==
    LET inside(k) == ~(at[k][1] < 0 \/ at[k][2] < 0 \/ at[k][1] >= width \/ at[k][2] >= height)
        idxOf(k) == at[k][2] * width + at[k][1]
        marked(k) == /\ inside(k)
                     /\ \/ idxOf(k) \in st.visited
                        \/ \E j \in 1 .. k - 1 :
                              /\ idxOf(j) = idxOf(k)
                              /\ inside(j)
                              /\ st.data[idxOf(j)].r < 128
        pushes(k) == enqueueIfBlack(st, marked(k), at[k][1], at[k][2], width, height)
    IN  [data |-> st.data,
         visited |-> st.visited \cup {idxOf(k) : k \in {j \in 1 .. Len(at) : pushes(j)}},
         queue |-> st.queue \o SelectSeq([k \in 1 .. Len(at) |-> IF pushes(k) THEN idxOf(k) ELSE -1],
                                         LAMBDA i : i >= 0),
         pushes |-> [idx \in DOMAIN st.pushes |->
                        st.pushes[idx]
                          + Cardinality({k \in 1 .. Len(at) : idxOf(k) = idx /\ pushes(k)})]]

\* The points the two for loops visit, in order.
BorderScan(width, height) ==
    [k \in 1 .. 2 * width |->
        IF k % 2 = 1 THEN <<(k - 1) \div 2, 0>> ELSE <<(k - 1) \div 2, height - 1>>]
      \o [k \in 1 .. 2 * height |->
            IF k % 2 = 1 THEN <<0, (k - 1) \div 2>> ELSE <<width - 1, (k - 1) \div 2>>]

\* The image data the call works on, `visited` and `queue` as they are
\* created, and no push yet.
FloodEntry(call) ==
    [data |-> call.data, visited |-> {}, queue |-> <<>>,
     pushes |-> [idx \in DOMAIN call.data |-> 0]]

\* The call up to the while loop.
FloodSeed ==
    /\ lpc = "called"
    /\ libCall.fn = "removeBorderConnectedInk"
    /\ lpc' = "flood"
    /\ libRet' = EnqueueAll(libRet, BorderScan(libCall.width, libCall.height),
                            libCall.width, libCall.height)
    /\ UNCHANGED <<libCall, outsideLib>>

\* One iteration of the while loop.
FloodPop ==
    /\ lpc = "flood"
    /\ libRet.queue # <<>>
    /\ LET idx == libRet.queue[Len(libRet.queue)]
           x == idx % libCall.width
           y == idx \div libCall.width
           popped == [libRet EXCEPT !.queue = SubSeq(@, 1, Len(@) - 1),
                                    !.data[idx] = [r |-> 255, g |-> 255, b |-> 255]]
       IN  libRet' = EnqueueAll(popped,
                                <<<<x - 1, y>>, <<x + 1, y>>, <<x, y - 1>>, <<x, y + 1>>>>,
                                libCall.width, libCall.height)
    /\ UNCHANGED <<lpc, libCall, outsideLib>>

\* The while loop ends and the function returns.
FloodReturn ==
    /\ lpc = "flood"
    /\ libRet.queue = <<>>
    /\ lpc' = "returned"
    /\ UNCHANGED <<libCall, libRet, outsideLib>>

FloodNext == FloodSeed \/ FloodPop \/ FloodReturn

(***************************************************************************)
(* findGridCorners                                                         *)
(***************************************************************************)
\* Width and height of the binary canvas, and the largest number of ink
\* pixels.  With sides below 20 no diagonal is exactly 0.45 of the shorter
\* side, and no pixel count exactly a hundredth of the area.
CornerWidth == 4

CornerHeight == 3

CornerInkMax == 4

CornerCalls ==
    {[fn |-> "findGridCorners", width |-> CornerWidth, height |-> CornerHeight,
      hasContext |-> ctx, ink |-> ink]
        : ctx \in BOOLEAN,
          ink \in {s \in SUBSET ((0 .. CornerWidth - 1) \X (0 .. CornerHeight - 1)) :
                      Cardinality(s) <= CornerInkMax}}

\* The pixel the scan keeps for a key with `key < best` (sign 1) or
\* `key > best` (sign -1): the first pixel in row order among those with
\* the least sign * key.
FirstExtreme(ink, width, sign, key(_)) ==
    CHOOSE p \in ink :
        \A q \in ink :
            \/ sign * key(p) < sign * key(q)
            \/ (key(p) = key(q) /\ p[2] * width + p[1] <= q[2] * width + q[1])

\* Math.hypot(a.x - b.x, a.y - b.y) < Math.min(width, height) * 0.45
DiagonalShort(a, b, width, height) ==
    400 * ((a[1] - b[1]) * (a[1] - b[1]) + (a[2] - b[2]) * (a[2] - b[2]))
        < 81 * MinOf2(width, height) * MinOf2(width, height)

NullCorners == [isNull |-> TRUE]

\* findGridCorners(binaryCanvas); ink is the set of pixels <<x, y>> whose
\* red channel is below 128.
findGridCorners(width, height, hasContext, ink) ==
    LET sum(p) == p[1] + p[2]
        diff(p) == p[1] - p[2]
        topLeft == FirstExtreme(ink, width, 1, sum)
        bottomRight == FirstExtreme(ink, width, -1, sum)
        bottomLeft == FirstExtreme(ink, width, 1, diff)
        topRight == FirstExtreme(ink, width, -1, diff)
    IN  IF ~hasContext THEN NullCorners
        ELSE IF ink = {} \/ 100 * Cardinality(ink) < width * height THEN NullCorners
        ELSE IF DiagonalShort(bottomRight, topLeft, width, height)
                  \/ DiagonalShort(topRight, bottomLeft, width, height)
           THEN NullCorners
        ELSE [isNull |-> FALSE, topLeft |-> topLeft, topRight |-> topRight,
              bottomLeft |-> bottomLeft, bottomRight |-> bottomRight]

FindGridCorners ==
    /\ lpc = "called"
    /\ libCall.fn = "findGridCorners"
    /\ Return(findGridCorners(libCall.width, libCall.height, libCall.hasContext, libCall.ink))

CornersNext == FindGridCorners

(***************************************************************************)
(* PuzzleSnapApp: upload, detection preview and manual corners             *)
(***************************************************************************)
\* Files the user uploads, numbered from 1.
SnapFiles == 1

\* runRecognition calls followed in one behaviour.
MaxRecognitions == 3

NoFile == 0

\* What a state holds before any result: previewUrl null and the values of
\* createEmptyValues().
NoRecognition == [file |-> NoFile, manual |-> FALSE]

\* The result of recognizeSudokuFromImageFile for a file, with the four
\* ordered corners as options.manualCorners or without options: the preview
\* and the values are determined by the arguments.
RecognitionOf(call) == [file |-> call.file, manual |-> call.manual]

SnapIdle ==
    /\ stage = "upload"
    /\ importFile = NoFile
    /\ manualCorners = 0
    /\ previousCornerCount = 0
    /\ busy = FALSE
    /\ error = ""
    /\ previewUrl = NoRecognition
    /\ recognizedValues = NoRecognition
    /\ recognitions = <<>>

InFlight == {n \in 1 .. Len(recognitions) : recognitions[n].at = "recognize"}

\* The calls the effect on manualCorners.length makes after a render with
\* the given state: with four corners after fewer, with none after some.
EffectRuns(file, st, current, inFlight) ==
    IF file = NoFile \/ st # "detect" THEN <<>>
    ELSE IF previousCornerCount < 4 /\ current = 4
         THEN <<[file |-> file, manual |-> TRUE, by |-> "corners",
                 overlaps |-> inFlight, at |-> "recognize"]>>
    ELSE IF previousCornerCount > 0 /\ current = 0
         THEN <<[file |-> file, manual |-> FALSE, by |-> "corners",
                 overlaps |-> inFlight, at |-> "recognize"]>>
    ELSE <<>>

\* The synchronous part of the runRecognition calls of one event: setBusy(true),
\* setError(null) and the call of recognizeSudokuFromImageFile.  The effect
\* runs after the handler, so its call comes last.
RunRecognition(handlerRuns, file, st, current) ==
    LET first == handlerRuns
        after == EffectRuns(file, st, current, InFlight # {} \/ first # <<>>)
        started == first \o after
    IN  /\ Len(recognitions) + Len(started) <= MaxRecognitions
        /\ recognitions' = recognitions \o started
        /\ busy' = IF started # <<>> THEN TRUE ELSE busy
        /\ previousCornerCount' = current

\* handleFile with an image file, from the file inputs, a drop or a paste of
\* the upload stage.
HandleFile ==
    /\ stage = "upload"
    /\ \E f \in 1 .. SnapFiles :
          /\ importFile' = f
          /\ RunRecognition(<<[file |-> f, manual |-> FALSE, by |-> "file",
                               overlaps |-> InFlight # {}, at |-> "recognize"]>>,
                            f, "detect", 0)
    /\ manualCorners' = 0
    /\ stage' = "detect"
    /\ error' = ""
    /\ UNCHANGED <<previewUrl, recognizedValues>>
    /\ UNCHANGED outsideSnap

\* onManualImageClick: a click on the original image.
ManualImageClick ==
    /\ stage = "detect"
    /\ manualCorners < 4
    /\ manualCorners' = manualCorners + 1
    /\ RunRecognition(<<>>, importFile, stage, manualCorners + 1)
    /\ error' = IF Len(recognitions') > Len(recognitions) THEN "" ELSE error
    /\ UNCHANGED <<stage, importFile, previewUrl, recognizedValues>>
    /\ UNCHANGED outsideSnap

\* A click on a corner dot removes that corner.
CornerDotClick ==
    /\ stage = "detect"
    /\ manualCorners > 0
    /\ manualCorners' = manualCorners - 1
    /\ RunRecognition(<<>>, importFile, stage, manualCorners - 1)
    /\ error' = IF Len(recognitions') > Len(recognitions) THEN "" ELSE error
    /\ UNCHANGED <<stage, importFile, previewUrl, recognizedValues>>
    /\ UNCHANGED outsideSnap

\* "Clear corners", disabled={busy || manualCorners.length === 0}.
ClearCorners ==
    /\ stage = "detect"
    /\ ~busy
    /\ manualCorners # 0
    /\ importFile # NoFile
    /\ manualCorners' = 0
    /\ RunRecognition(<<[file |-> importFile, manual |-> FALSE, by |-> "clear",
                         overlaps |-> InFlight # {}, at |-> "recognize"]>>,
                      importFile, stage, 0)
    /\ error' = ""
    /\ UNCHANGED <<stage, importFile, previewUrl, recognizedValues>>
    /\ UNCHANGED outsideSnap

\* "Back to upload", disabled={busy}.
BackToUpload ==
    /\ stage = "detect"
    /\ ~busy
    /\ stage' = "upload"
    /\ manualCorners' = 0
    /\ previewUrl' = NoRecognition
    /\ error' = ""
    /\ RunRecognition(<<>>, importFile, "upload", 0)
    /\ UNCHANGED <<importFile, recognizedValues>>
    /\ UNCHANGED outsideSnap

\* The await of runRecognition resolves: the lines after it and `finally`.
RecognitionResolves ==
    \E n \in InFlight :
        /\ recognitions' = [recognitions EXCEPT ![n].at = "done"]
        /\ previewUrl' = RecognitionOf(recognitions[n])
        /\ recognizedValues' = RecognitionOf(recognitions[n])
        /\ busy' = FALSE
        /\ UNCHANGED <<stage, importFile, manualCorners, previousCornerCount, error>>
        /\ UNCHANGED outsideSnap

\* The await rejects: `catch` and `finally`.
RecognitionRejects ==
    \E n \in InFlight :
        /\ recognitions' = [recognitions EXCEPT ![n].at = "failed"]
        /\ error' = "Recognition failed"
        /\ busy' = FALSE
        /\ UNCHANGED <<stage, importFile, manualCorners, previousCornerCount,
                       previewUrl, recognizedValues>>
        /\ UNCHANGED outsideSnap

SnapNext ==
    \/ HandleFile
    \/ ManualImageClick
    \/ CornerDotClick
    \/ ClearCorners
    \/ BackToUpload
    \/ RecognitionResolves
    \/ RecognitionRejects

(***************************************************************************)
(* SudokuApp: the board, its moves and its history                         *)
(***************************************************************************)
\* Snapshots kept in history in one behaviour.
MaxHistory == 3

\* The cells the user selects here: two cells of one row.
PlaySelectable == {0, 1}

\* `selected === null`.
NoSelection == -1

\* createEmptyNotes()
EmptyNotes == [i \in Cells |-> 0]

\* initialValues: an array of 81 or of 80 entries whose first entry is null,
\* a digit or 10 and whose other entries are null.
InitialBoards ==
    {[length |-> n, first |-> g] : n \in {CELL_COUNT, CELL_COUNT - 1},
                                  g \in {null} \cup Digits \cup {10}}

sanitizeInitial(given) ==
    IF given.length # 81 THEN EmptyValues
    ELSE [i \in Cells |->
            IF i = 0 /\ given.first # null /\ given.first >= 1 /\ given.first <= 9
            THEN given.first ELSE null]

\* 1 << (digit - 1)
bitForDigit(digit) == 2 ^ (digit - 1)

\* (noteMask & bitForDigit(digit)) !== 0
hasNote(noteMask, digit) == (noteMask \div bitForDigit(digit)) % 2 = 1

\* noteMask ^ bitForDigit(digit)
NoteToggled(noteMask, digit) ==
    IF hasNote(noteMask, digit) THEN noteMask - bitForDigit(digit)
    ELSE noteMask + bitForDigit(digit)

\* noteMask & ~bitForDigit(digit)
NoteCleared(noteMask, digit) ==
    IF hasNote(noteMask, digit) THEN noteMask - bitForDigit(digit) ELSE noteMask

\* The move without the test of startValues[selected].
nextFromMoveOnAnyCell(vals, nts, start, sel, mode, digit) ==
    IF sel = NoSelection
    THEN [values |-> vals, notes |-> nts, copied |-> FALSE]
    ELSE IF digit = null
    THEN [values |-> [vals EXCEPT ![sel] = null],
          notes |-> [nts EXCEPT ![sel] = 0], copied |-> TRUE]
    ELSE IF mode /\ vals[sel] = null
    THEN [values |-> vals,
          notes |-> [nts EXCEPT ![sel] = NoteToggled(nts[sel], digit)], copied |-> TRUE]
    ELSE [values |-> [vals EXCEPT ![sel] = digit],
          notes |-> [i \in Cells |->
                       IF i = sel THEN 0
                       ELSE IF i \in UnitPeers[sel] THEN NoteCleared(nts[i], digit)
                       ELSE nts[i]],
          copied |-> TRUE]

\* nextFromMove; copied tells whether values and notes are new arrays or the
\* arrays passed in.
nextFromMove(vals, nts, start, sel, mode, digit) ==
    IF sel = NoSelection \/ start[sel] # null
    THEN [values |-> vals, notes |-> nts, copied |-> FALSE]
    ELSE IF digit = null
    THEN [values |-> [vals EXCEPT ![sel] = null],
          notes |-> [nts EXCEPT ![sel] = 0], copied |-> TRUE]
    ELSE IF mode /\ vals[sel] = null
    THEN [values |-> vals,
          notes |-> [nts EXCEPT ![sel] = NoteToggled(nts[sel], digit)], copied |-> TRUE]
    ELSE [values |-> [vals EXCEPT ![sel] = digit],
          notes |-> [i \in Cells |->
                       IF i = sel THEN 0
                       ELSE IF i \in UnitPeers[sel] THEN NoteCleared(nts[i], digit)
                       ELSE nts[i]],
          copied |-> TRUE]

\* The history that keeps the entries above historyIndex.
commitSnapshotUntrimmed(hist, at, snapshot) ==
    LET pushed == Append(hist, [values |-> snapshot.values, notes |-> snapshot.notes])
    IN  [values |-> snapshot.values, notes |-> snapshot.notes,
         history |-> pushed, historyIndex |-> Len(pushed) - 1]

\* commitSnapshot: the state it sets; history[k + 1] here is history[k] there.
commitSnapshot(hist, at, snapshot) ==
    LET trimmed == SubSeq(hist, 1, at + 1)
        pushed == Append(trimmed, [values |-> snapshot.values, notes |-> snapshot.notes])
    IN  [values |-> snapshot.values, notes |-> snapshot.notes,
         history |-> pushed, historyIndex |-> Len(pushed) - 1]

\* applyDigit: the state after it, for a selection and a digit or null.
applyDigit(sel, digit) ==
    LET snapshot == nextFromMove(boardValues, notes, startValues, sel, noteMode, digit)
    IN  IF ~snapshot.copied
        THEN [values |-> boardValues, notes |-> notes,
              history |-> history, historyIndex |-> historyIndex]
        ELSE commitSnapshot(history, historyIndex, snapshot)

PlayEntry(given) ==
    LET initial == sanitizeInitial(given)
    IN  /\ startValues = initial
        /\ boardValues = initial
        /\ notes = EmptyNotes
        /\ selected = 0
        /\ noteMode = FALSE
        /\ history = <<[values |-> initial, notes |-> EmptyNotes]>>
        /\ historyIndex = 0

\* The board of a SudokuApp without initialValues.
PlayIdle == PlayEntry([length |-> 0, first |-> null])

\* A click on a cell.
SelectCell ==
    /\ \E i \in PlaySelectable : selected' = i
    /\ UNCHANGED <<startValues, boardValues, notes, noteMode, history, historyIndex>>
    /\ UNCHANGED outsidePlay

\* The Note key or "n".
ToggleNoteMode ==
    /\ noteMode' = ~noteMode
    /\ UNCHANGED <<startValues, boardValues, notes, selected, history, historyIndex>>
    /\ UNCHANGED outsidePlay

\* The state set by a handler that commits a snapshot or returns early.
Applied(after) ==
    /\ Len(after.history) <= MaxHistory
    /\ boardValues' = after.values
    /\ notes' = after.notes
    /\ history' = after.history
    /\ historyIndex' = after.historyIndex

\* A digit key of the keypad or of the keyboard.
EnterDigit ==
    /\ \E digit \in Digits : Applied(applyDigit(selected, digit))
    /\ UNCHANGED <<startValues, selected, noteMode>>
    /\ UNCHANGED outsidePlay

\* Delete, Backspace or "0".
DeleteDigit ==
    /\ Applied(applyDigit(selected, null))
    /\ UNCHANGED <<startValues, selected, noteMode>>
    /\ UNCHANGED outsidePlay

\* Undo or "u".
Undo ==
    /\ IF historyIndex > 0
       THEN LET previous == history[historyIndex]
            IN  /\ boardValues' = previous.values
                /\ notes' = previous.notes
                /\ historyIndex' = historyIndex - 1
       ELSE UNCHANGED <<boardValues, notes, historyIndex>>
    /\ UNCHANGED <<startValues, selected, noteMode, history>>
    /\ UNCHANGED outsidePlay

\* Reset.
Reset ==
    LET snapshot == [values |-> startValues, notes |-> EmptyNotes]
        trimmed == SubSeq(history, 1, historyIndex + 1)
        pushed == Append(trimmed, snapshot)
    IN  /\ Applied([values |-> snapshot.values, notes |-> snapshot.notes,
                     history |-> pushed, historyIndex |-> Len(pushed) - 1])
        /\ UNCHANGED <<startValues, selected, noteMode>>
        /\ UNCHANGED outsidePlay

PlayNext ==
    \/ SelectCell
    \/ ToggleNoteMode
    \/ EnterDigit
    \/ DeleteDigit
    \/ Undo
    \/ Reset

Next ==
    \/ LoadImage
    \/ SetupCanvas
    \/ DetectFrame
    \/ EstimateRect
    \/ DrawPreview
    \/ CreateWorker
    \/ SetParameters
    \/ CreateScratch
    \/ ScratchFailed
    \/ PrepareCell
    \/ IssuePrimary
    \/ ResolvePrimary
    \/ IssueFallback
    \/ ResolveFallback
    \/ AcceptCell
    \/ FinishCell
    \/ TerminateWorker
    \/ PruneAndReturn

Init ==
    /\ PruneIdle
    /\ rpc = "load"
    /\ err = ""
    /\ detectionBinary = "null"
    /\ corners = "null"
    /\ warpedSource = "null"
    /\ warpedBinary = "null"
    /\ correctedSource = "null"
    /\ correctedBinary = "null"
    /\ profile = "blank"
    /\ rect = NoRect
    /\ workerState = "none"
    /\ outstanding = 0
    /\ index = 0
    /\ detected = EmptyValues
    /\ confidences = ZeroConf
    /\ stats = BlankStats
    /\ gated = FALSE
    /\ calls = 0
    /\ bestDigit = null
    /\ bestConfidence = -1
    /\ primaryResult = NoResult
    /\ fallbackResult = NoResult
    /\ fallbackRan = FALSE
    /\ replaced = FALSE
    /\ result = NoReturn
    /\ progressCount = 0
    /\ progressLast = 0
    /\ LibIdle
    /\ RunnerIdle
    /\ SnapIdle
    /\ PlayIdle

Spec == Init /\ [][Next]_vars

PruneInit ==
    /\ \E in \in PruneInputs : PruneEntry(in)
    /\ RecIdle
    /\ LibIdle
    /\ RunnerIdle
    /\ SnapIdle
    /\ PlayIdle

RunnerInit == RunnerIdle /\ PruneIdle /\ RecIdle /\ LibIdle /\ SnapIdle /\ PlayIdle

SpecRunner == RunnerInit /\ [][RunnerNext]_vars

SpecPrune == PruneInit /\ [][PruneNext]_vars

LibInit(callSet) ==
    /\ lpc = "called"
    /\ libCall \in callSet
    /\ libRet = "none"
    /\ PruneIdle
    /\ RecIdle
    /\ RunnerIdle
    /\ SnapIdle
    /\ PlayIdle

PeersInit == LibInit(PeerCalls)

SpecPeers == PeersInit /\ [][PeersNext]_vars

FixturesNext == ParseExpectedGrid \/ ScoreRecognition \/ BestAlignment

FixturesInit == LibInit(ParseCalls \cup ScoreCalls \cup AlignCalls)

SpecFixtures == FixturesInit /\ [][FixturesNext]_vars

OtsuInit == LibInit(OtsuCalls)

SpecOtsu == OtsuInit /\ [][OtsuNext]_vars

WarpInit == LibInit(WarpCalls)

SpecWarp == WarpInit /\ [][WarpNext]_vars

RectInit == LibInit(RectCalls)

SpecRect == RectInit /\ [][RectNext]_vars

FloodInit ==
    /\ lpc = "called"
    /\ libCall \in FloodCalls
    /\ libRet = FloodEntry(libCall)
    /\ PruneIdle
    /\ RecIdle
    /\ RunnerIdle
    /\ SnapIdle
    /\ PlayIdle

SpecFlood == FloodInit /\ [][FloodNext]_vars

CornersInit == LibInit(CornerCalls)

SpecCorners == CornersInit /\ [][CornersNext]_vars

SnapInit == SnapIdle /\ PruneIdle /\ RecIdle /\ LibIdle /\ RunnerIdle /\ PlayIdle

SpecSnap == SnapInit /\ [][SnapNext]_vars

PlayInit ==
    /\ \E given \in InitialBoards : PlayEntry(given)
    /\ PruneIdle
    /\ RecIdle
    /\ LibIdle
    /\ RunnerIdle
    /\ SnapIdle

SpecPlay == PlayInit /\ [][PlayNext]_vars

(***************************************************************************)
(* Properties of pruneConflictingDetections (SpecPrune)                    *)
(***************************************************************************)
RowOf(i) == i \div 9

ColOf(i) == i % 9

BoxOf(i) == (RowOf(i) \div 3) * 3 + (ColOf(i) \div 3)

\* Two distinct indices in the same row, column or 3x3 box.
IsPeer(i, j) ==
    i # j /\ (RowOf(i) = RowOf(j) \/ ColOf(i) = ColOf(j) \/ BoxOf(i) = BoxOf(j))

HasSameDigitPeer(v, i) ==
    v[i] # null /\ \E j \in Cells : IsPeer(i, j) /\ v[j] = v[i]

ConflictFree(v) == \A i \in Cells : ~HasSameDigitPeer(v, i)

RemovedCells == {i \in Cells : inValues[i] # null /\ nextValues[i] = null}

\* C1: the values returned by pruneConflictingDetections hold no digit twice
\* in any row, column or 3x3 box.
C1_NoPeerConflictAfterPrune == ppc = "returned" => ConflictFree(nextValues)

\* A call that found conflicting detections and returned.
C1_Witness == ppc = "returned" /\ ~ConflictFree(inValues) /\ dropped >= 1

\* C2: every returned cell is the input cell or null, and the caller's
\* values and confidences arrays are as they were at the call.
C2_OnlyClearsAndKeepsInput ==
    /\ \A i \in Cells : nextValues[i] = inValues[i] \/ nextValues[i] = null
    /\ heap["values"] = inValues
    /\ heap["confidences"] = inConf

\* A returned call that cleared a cell which the caller's array still holds.
C2_Witness ==
    /\ ppc = "returned"
    /\ \E i \in Cells : heap["values"][i] # null /\ nextValues[i] = null

\* C7: the loop stops because no conflict is left, after at most 80
\* removals, never because the guard reached its limit.
C7_StopsByBreakWithin80 ==
    ppc = "returned" =>
        /\ guard < PruneGuardLimit
        /\ dropped <= 80
        /\ ConflictFree(nextValues)

\* A full board of one digit pruned to the end: 80 removals, one cell left.
C7_Witness == ppc = "returned" /\ dropped = 80

\* C8: the dropped count is the number of input digits that are null in the
\* output; each removing iteration clears exactly one cell, and that cell
\* had a same-digit peer when it was cleared.
C8_DroppedCountsRemovals ==
    [][ /\ (ppc' = "returned" => dropped' = Cardinality(RemovedCells'))
        /\ (guard' # guard =>
               /\ dropped' = dropped + 1
               /\ \E i \in Cells :
                     /\ HasSameDigitPeer(nextValues, i)
                     /\ nextValues' = [nextValues EXCEPT ![i] = null]) ]_vars

\* A returned call with two removals.
C8_Witness == ppc = "returned" /\ dropped = 2 /\ Cardinality(RemovedCells) = 2

RECURSIVE TotalConfidence(_, _)
TotalConfidence(c, S) ==
    IF S = {} THEN 0
    ELSE LET i == CHOOSE x \in S : TRUE
         IN  c[i] + TotalConfidence(c, S \ {i})

Filled(v) == {i \in Cells : v[i] # null}

Without(v, S) == [i \in Cells |-> IF i \in S THEN null ELSE v[i]]

\* C9 as stated: no other set of detections with a smaller total confidence
\* leaves the board free of repeated digits when removed (evaluated on the
\* sparse inputs, whose subsets can be enumerated).
C9_RemovedSetHasMinimumConfidence ==
    (ppc = "returned" /\ Cardinality(Filled(inValues)) <= PruneCells) =>
        \A S \in SUBSET Filled(inValues) :
            ConflictFree(Without(inValues, S)) =>
                TotalConfidence(inConf, S) >= TotalConfidence(inConf, RemovedCells)

\* The score the greedy rule compares: the confidence, plus 1000 for a
\* confidence of at least 86 that no same-digit peer exceeds.
GreedyScore(v, c, i) ==
    IF c[i] >= 86 /\ \A j \in Cells : (IsPeer(i, j) /\ v[j] = v[i]) => c[j] <= c[i]
       THEN c[i] + 1000
       ELSE c[i]

\* C9 (amended): the removed set is built greedily; every removal takes a
\* detection whose score is the lowest among the detections that have a
\* same-digit peer at that moment.
C9_EachRemovalHasLowestScore ==
    [][ guard' # guard =>
          \E i \in Cells :
              /\ nextValues[i] # null
              /\ nextValues'[i] = null
              /\ \A j \in Cells :
                    HasSameDigitPeer(nextValues, j) =>
                        GreedyScore(nextValues, nextConf, i) <= GreedyScore(nextValues, nextConf, j) ]_vars

\* A returned call that removed two detections although removing another
\* single detection of lower total confidence would have sufficed.
C9_Witness ==
    /\ ppc = "returned"
    /\ dropped = 2
    /\ \E k \in Filled(inValues) :
          /\ ConflictFree(Without(inValues, {k}))
          /\ inConf[k] < TotalConfidence(inConf, RemovedCells)

(***************************************************************************)
(* Properties of recognizeSudokuFromImageFile (Spec)                       *)
(***************************************************************************)
Completed == rpc \in {"done", "thrown"}

\* C3: once the worker has been created, worker.terminate() has been called
\* whenever the call completes, by return or by throw.
C3_WorkerTerminatedOnEveryExit ==
    (Completed /\ workerState # "none") => workerState = "terminated"

\* C4: at most one recognize request is outstanding, requests are issued
\* only to a live worker with none outstanding, the index advances by one
\* from 0, a gated cell issued no request and a classified cell one or two.
C4_SequentialClassification ==
    [][ /\ outstanding' \in {0, 1}
        /\ (index' = index \/ index' = index + 1)
        /\ (calls' > calls => (workerState = "created" /\ outstanding = 0 /\ calls' = calls + 1))
        /\ (workerState = "terminated" => (outstanding' = 0 /\ calls' <= calls))
        /\ (index' = index + 1 =>
               IF gated THEN calls = 0 ELSE calls \in {1, 2}) ]_vars

\* The last cell was classified with two requests and the call returned.
C4_Witness == rpc = "finish" /\ index = 80 /\ ~gated /\ calls = 2 /\ outstanding = 0

\* C5 as stated: the fallback runs iff the primary found no digit or its
\* confidence is below 34, it replaces the primary result only if it found a
\* digit with a confidence strictly above the confidence of the primary
\* attempt, and otherwise the primary digit and confidence are kept.
C5_FallbackOnlyAbovePrimaryConfidence ==
    rpc = "accept" =>
        /\ fallbackRan <=> (primaryResult.digit = null \/ primaryResult.confidence < 34)
        /\ replaced =>
              (fallbackResult.digit # null /\ fallbackResult.confidence > primaryResult.confidence)
        /\ ~replaced =>
              /\ bestDigit = primaryResult.digit
              /\ (primaryResult.digit # null => bestConfidence = primaryResult.confidence)

\* C5 (amended): the comparison is against the primary confidence only when
\* the primary found a digit; a primary without a digit counts as -1, so any
\* fallback digit replaces it and, if none does, no digit is kept.
C5_FallbackAgainstPrimaryDigitConfidence ==
    rpc = "accept" =>
        /\ fallbackRan <=> (primaryResult.digit = null \/ primaryResult.confidence < 34)
        /\ replaced =>
              /\ fallbackRan
              /\ fallbackResult.digit # null
              /\ (primaryResult.digit = null
                    \/ fallbackResult.confidence > primaryResult.confidence)
              /\ bestDigit = fallbackResult.digit
              /\ bestConfidence = fallbackResult.confidence
        /\ ~replaced =>
              /\ bestDigit = primaryResult.digit
              /\ bestConfidence =
                    IF primaryResult.digit # null THEN primaryResult.confidence ELSE -1

\* The primary found no digit at confidence 34 and a fallback digit of
\* confidence 33 replaced it.
C5_Witness ==
    /\ rpc = "accept"
    /\ primaryResult.digit = null
    /\ primaryResult.confidence = 34
    /\ replaced
    /\ fallbackResult.confidence = 33

\* C6: throughout the loop and at the call of the pruner a cell holds a
\* digit iff its confidence exceeds 16, an unknown cell has confidence 0,
\* and a cell that was gated, found no digit or ended at 16 or less is left
\* unknown with confidence 0 while the loop goes on.
C6_DigitIffConfidenceAbove16 ==
    /\ \A i \in Cells :
          /\ (detected[i] # null <=> confidences[i] > 16)
          /\ (detected[i] = null => confidences[i] = 0)
    /\ (rpc = "finish" /\ (gated \/ bestDigit = null \/ bestConfidence <= 16)) =>
          (detected[index] = null /\ confidences[index] = 0)

\* A cell whose best digit had confidence 16 was left unknown and the loop
\* reached the end of its iteration.
C6_Witness ==
    /\ rpc = "finish"
    /\ ~gated
    /\ bestDigit # null
    /\ bestConfidence = 16
    /\ detected[index] = null

GeometryFailed == corners = "null" \/ warpedSource = "null" \/ warpedBinary = "null"

\* C10: the frame and rectangle steps never throw; without corners or
\* without either warp the call goes on with the unwarped source and the
\* unwarped detection binary, the two are warped together or not at all,
\* and without a grid the rectangle is the full-image square.
C10_GeometryFailuresFallBack ==
    [][ /\ (rpc = "frame" =>
              /\ rpc' = "rotate"
              /\ (GeometryFailed' =>
                    (correctedSource' = "sourceCanvas" /\ correctedBinary' = detectionBinary'))
              /\ (correctedSource' = "warpedSource" <=> correctedBinary' = "warpedBinary")
              /\ correctedSource' \in {"sourceCanvas", "warpedSource"})
        /\ (rpc = "rotate" =>
              /\ rpc' = "preview"
              /\ (profile' \in {"blank", "nocontext"} =>
                    rect' = [left |-> 0, top |-> 0,
                             size |-> IF correctedBinary = "warpedBinary"
                                         THEN 900
                                         ELSE MinOf2(SourceWidth, SourceHeight)])) ]_vars

\* A call that returned although only one of the two warps succeeded and no
\* grid was found.
C10_Witness ==
    /\ rpc = "done"
    /\ corners # "null"
    /\ warpedSource # "null"
    /\ warpedBinary = "null"
    /\ correctedSource = "sourceCanvas"
    /\ profile = "blank"
    /\ rect.size = MinOf2(SourceWidth, SourceHeight)

\* C11: with a callback given, the reports of a call are 0.02, then 0.08,
\* then one per cell at 0.08 + ((index + 1) / 81) * 0.92 as the cell's
\* iteration ends; each is at least its predecessor, the per-cell ones lie
\* in [0.08, 1.0], a completed call has made 83 reports ending at 1.0, and
\* after a report the call goes on to the same statement whatever the
\* callback returned.
C11_ProgressSequence ==
    [][ /\ progressCount' \in {progressCount, progressCount + 1}
        /\ (progressCount' = progressCount => progressLast' = progressLast)
        /\ (progressCount' = progressCount + 1 =>
              /\ progressLast' >= progressLast
              /\ (progressCount = 0 =>
                    rpc = "canvas" /\ progressLast' * 100 = 2 * ProgressScale)
              /\ (progressCount = 1 =>
                    rpc = "preview" /\ progressLast' * 100 = 8 * ProgressScale)
              /\ (progressCount >= 2 =>
                    /\ rpc = "finish"
                    /\ index = progressCount - 2
                    /\ progressLast' * 8100 = ProgressScale * (648 + 92 * (index + 1))
                    /\ progressLast' * 100 >= 8 * ProgressScale
                    /\ progressLast' <= ProgressScale)
              /\ (rpc' # "thrown" =>
                    rpc' = CASE rpc = "canvas" -> "frame"
                             [] rpc = "preview" -> "engine"
                             [] OTHER -> IF index + 1 < 81 THEN "cell" ELSE "terminate"))
        /\ (rpc' \in {"cell", "primary", "awaitPrimary", "fallback", "awaitFallback",
                       "accept", "finish"} => progressCount' = index' + 2)
        /\ (rpc' = "done" => progressCount' = 83 /\ progressLast' = ProgressScale) ]_vars

\* A completed call whose last cell was classified: 83 reports, the last 1.0.
C11_Witness ==
    /\ rpc = "done"
    /\ progressCount = 83
    /\ progressLast = ProgressScale
    /\ result.values[80] # null

(***************************************************************************)
(* Properties of the library functions                                     *)
(***************************************************************************)
Returned(fn) == lpc = "returned" /\ libCall.fn = fn

SeqRange(q) == {q[k] : k \in 1 .. Len(q)}

\* C12: for i # j, inSameUnit(i, j) = inSameUnit(j, i) and both equal the
\* row/column/box test inlined in pruneConflictingDetections; getPeers(i)
\* has 20 entries, none of them i, holds j iff getPeers(j) holds i, and
\* holds exactly the j # i the inlined test relates to i.
C12_PeerRelationSymmetricWith20Peers ==
    /\ (Returned("inSameUnit") /\ libCall.a # libCall.b) =>
          /\ libRet = inSameUnit(libCall.b, libCall.a)
          /\ libRet = SameUnitInline(libCall.a, libCall.b)
          /\ libRet = SameUnitInline(libCall.b, libCall.a)
    /\ Returned("getPeers") =>
          /\ Len(libRet) = 20
          /\ \A k \in 1 .. Len(libRet) : libRet[k] # libCall.a
          /\ (libCall.b \in SeqRange(libRet)) <=> (libCall.a \in SeqRange(getPeers(libCall.b)))
          /\ (libCall.b \in SeqRange(libRet)) <=>
                (libCall.b # libCall.a /\ SameUnitInline(libCall.b, libCall.a))

\* getPeers(0) returned and holds 10, which shares only the box with 0.
C12_Witness ==
    /\ Returned("getPeers")
    /\ libCall.a = 0
    /\ libCall.b = 10
    /\ libCall.b \in SeqRange(libRet)

\* Characters a valid grid is made of: 0-9 and ".".
IsGridChar(c) == c = "." \/ (CodeOf[c] >= CodeOf["0"] /\ CodeOf[c] <= CodeOf["9"])

ValuesOf(str) ==
    [i \in Cells |-> IF str[i + 1] \in {".", "0"} THEN null ELSE CodeOf[str[i + 1]] - 48]

ParseDone == libCall.fn = "parseExpectedGrid" /\ lpc \in {"returned", "thrown"}

\* C13 as stated: parseExpectedGrid throws for every input whose length is
\* not 81 and for every input with a character outside 0-9 and "."; for
\* every other input it returns the 81 cells.
C13_ParseRejectsLengthAndCharacters ==
    ParseDone =>
        IF Len(libCall.grid) # 81 \/ \E k \in 1 .. Len(libCall.grid) : ~IsGridChar(libCall.grid[k])
           THEN lpc = "thrown"
           ELSE lpc = "returned" /\ libRet = ValuesOf(libCall.grid)

\* C13 (amended): the test is made on the input with its leading and
\* trailing whitespace removed.
C13_ParseRejectsAfterTrim ==
    ParseDone =>
        LET normalized == trim(libCall.grid)
        IN  IF Len(normalized) # 81 \/ \E k \in 1 .. Len(normalized) : ~IsGridChar(normalized[k])
               THEN lpc = "thrown"
               ELSE lpc = "returned" /\ libRet = ValuesOf(normalized)

\* An 83-character input, 81 grid characters between a space and a line
\* feed, was parsed: "0" became unknown and "9" became 9.
C13_Witness ==
    /\ Returned("parseExpectedGrid")
    /\ Len(libCall.grid) = 83
    /\ libCall.grid[2] = "0"
    /\ libRet[0] = null
    /\ libRet[80] = 9

Givens(g) == {i \in Cells : g[i] # null}

\* The grid turned by 180 degrees, and by 90 degrees as "rotate90" reads it.
Rotated180(g) == [i \in Cells |-> g[80 - i]]

Rotated90(g) == [i \in Cells |-> g[(8 - (i % 9)) * 9 + (i \div 9)]]

AlignedWithRotated180 ==
    /\ Returned("bestAlignment")
    /\ Givens(libCall.expected) # {}
    /\ libCall.actual = Rotated180(libCall.expected)

\* C14 as stated: for an expected grid with a given and actual =
\* rotate180(expected), bestAlignment returns transform "rotate180",
\* accuracy 1.0 and 0 false positives.
C14_Rotate180IsReturned ==
    AlignedWithRotated180 =>
        /\ libRet.transform = "rotate180"
        /\ libRet.accuracy.num = libRet.accuracy.den
        /\ libRet.falsePositives = 0

\* C14 (amended): accuracy 1.0 and 0 false positives are returned, with the
\* first of identity, rotate90, rotate180 that maps actual onto expected:
\* "rotate180" unless the grid looks the same after the turn ("identity")
\* or after a quarter turn more ("rotate90").
C14_FirstExactTransformIsReturned ==
    AlignedWithRotated180 =>
        /\ libRet.transform =
              IF libCall.actual = libCall.expected THEN "identity"
              ELSE IF Rotated90(libCall.actual) = libCall.expected THEN "rotate90"
              ELSE "rotate180"
        /\ libRet.accuracy.num = libRet.accuracy.den
        /\ libRet.matchedExpected = libRet.totalExpected
        /\ libRet.falsePositives = 0

\* A grid with a given in one corner only, aligned with its half turn.
C14_Witness ==
    /\ AlignedWithRotated180
    /\ libCall.expected[0] # null
    /\ libCall.expected[80] = null
    /\ libRet.transform = "rotate180"

\* The scores of the 8 symmetries applied to actual, in the order of the
\* list.
SymmetryScores ==
    {[k |-> k,
      name |-> <<"identity", "rotate90", "rotate180", "rotate270",
                 "flipH", "flipV", "transpose", "antiTranspose">>[k],
      score |-> scoreRecognition(libCall.expected, transformGrid(libCall.actual, transforms[k]))]
        : k \in 1 .. 8}

Better(x, y) ==
    \/ x.accuracy.num * y.accuracy.den > y.accuracy.num * x.accuracy.den
    \/ (x.accuracy.num * y.accuracy.den = y.accuracy.num * x.accuracy.den
          /\ x.falsePositives < y.falsePositives)

\* C15: bestAlignment returns the transform and score of one of the 8
\* symmetries that none of the 8 beats on accuracy, or on false positives
\* at equal accuracy; every symmetry earlier in the list is beaten by it;
\* and the unaligned score does not beat it.
C15_BestOfEightEarliestOnTies ==
    Returned("bestAlignment") =>
        LET all == SymmetryScores
        IN  /\ \E c \in all :
                  /\ libRet.transform = c.name
                  /\ libRet = WithTransform(c.name, c.score)
                  /\ \A o \in all : ~Better(o.score, c.score)
                  /\ \A o \in all : o.k < c.k => Better(c.score, o.score)
            /\ ~Better(scoreRecognition(libCall.expected, libCall.actual), libRet)

\* Both rotate180 and antiTranspose align the two grids exactly; rotate180
\* comes first and is returned.
C15_Witness ==
    /\ Returned("bestAlignment")
    /\ libCall.expected[0] # null
    /\ libCall.expected[80] = null
    /\ libCall.expected[40] # null
    /\ libCall.actual = Rotated180(libCall.expected)
    /\ libRet.transform = "rotate180"
    /\ libRet.falsePositives = 0

\* C16: matchedExpected <= totalExpected and, with a given, accuracy is
\* matchedExpected / totalExpected; scoring a grid with a given against
\* itself returns its number of givens as totalExpected and as
\* matchedExpected, 0 false positives and accuracy 1.
C16_ScoreOfAGridAgainstItself ==
    Returned("scoreRecognition") =>
        /\ libRet.matchedExpected <= libRet.totalExpected
        /\ libRet.totalExpected = Cardinality(Givens(libCall.expected))
        /\ (libRet.totalExpected > 0 =>
              /\ libRet.accuracy.den = libRet.totalExpected
              /\ libRet.accuracy.num = libRet.matchedExpected)
        /\ (libCall.actual = libCall.expected /\ Givens(libCall.expected) # {} =>
              /\ libRet.matchedExpected = libRet.totalExpected
              /\ libRet.falsePositives = 0
              /\ libRet.accuracy.num = libRet.accuracy.den)

\* A grid with two givens scored against itself.
C16_Witness ==
    /\ Returned("scoreRecognition")
    /\ libCall.actual = libCall.expected
    /\ libRet.totalExpected = 2
    /\ libRet.matchedExpected = 2

(***************************************************************************)
(* Properties of the fixture runner (SpecRunner)                           *)
(***************************************************************************)
EntriesOf(rs, fixture) == SelectSeq(rs, LAMBDA r : r.fixtureId = fixture)

EntriesNotOf(rs, fixture) == SelectSeq(rs, LAMBDA r : r.fixtureId # fixture)

\* In this step the n-th runFixture call, one made by runAll, ended in its
\* catch block.
BatchRunFailed(n) ==
    /\ n \in 1 .. Len(runs')
    /\ runs'[n].owner = "all"
    /\ runs'[n].at = "done"
    /\ (n <= Len(runs) => runs[n].at # "done")
    /\ results'[Len(results')].cause # "score"

\* C17: a runFixture call of runAll that fails to parse, to fetch or to
\* recognize leaves the one entry of its fixture, with status "error", and
\* no other fixture's entry changes; the batch is not aborted; no fixture
\* id ever has two entries; and when the batch ends every enabled fixture
\* has been run by it and has its entry, activeId is null and running is
\* false.
C17_BatchIsolatesFixtureErrors ==
    [][ /\ \A n \in 1 .. Len(runs') :
              BatchRunFailed(n) =>
                  /\ EntriesOf(results', runs'[n].fixture) =
                        <<[fixtureId |-> runs'[n].fixture, status |-> "error",
                           cause |-> IF n > Len(runs) THEN "parse" ELSE runs[n].at]>>
                  /\ (batches' = batches =>
                        EntriesNotOf(results', runs'[n].fixture) =
                            EntriesNotOf(results, runs'[n].fixture))
                  /\ running'
                  /\ batchPos' \in 1 .. FixtureCount
        /\ \A i, j \in 1 .. Len(results') :
              i # j => results'[i].fixtureId # results'[j].fixtureId
        /\ (running /\ ~running' =>
              /\ activeId' = null
              /\ \A k \in 1 .. FixtureCount :
                    /\ Cardinality({n \in 1 .. Len(runs') :
                                      runs'[n].owner = "all"
                                      /\ runs'[n].fixture = enabledFixtures[k]
                                      /\ runs'[n].at = "done"}) = batches
                    /\ Len(EntriesOf(results', enabledFixtures[k])) = 1) ]_vars

\* A batch has ended in which the first fixture did not parse and the
\* second was scored as a pass.
C17_Witness ==
    /\ batches = 1
    /\ ~running
    /\ activeId = null
    /\ Len(results) = 2
    /\ results[1] = [fixtureId |-> 1, status |-> "error", cause |-> "parse"]
    /\ results[2] = [fixtureId |-> 2, status |-> "pass", cause |-> "score"]

\* The score with the confidence compared against every cell of the same
\* row, column or box, whatever it holds.
UnitScore(c, i) ==
    IF c[i] >= 86 /\ \A j \in Cells : IsPeer(i, j) => c[j] <= c[i]
       THEN c[i] + 1000
       ELSE c[i]

\* C18 as stated: the cell an iteration removes has a peer with the same
\* digit, and its score, the confidence plus 1000 exactly when the
\* confidence is at least 86 and at least the confidence of every cell in
\* its row, column and box, is the lowest among such cells.
C18_LowestScoreAgainstEveryPeer ==
    [][ guard' # guard =>
          \E i \in Cells :
              /\ nextValues[i] # null
              /\ nextValues'[i] = null
              /\ HasSameDigitPeer(nextValues, i)
              /\ \A j \in Cells :
                    HasSameDigitPeer(nextValues, j) =>
                        UnitScore(nextConf, i) <= UnitScore(nextConf, j) ]_vars

\* C18 (amended): the confidence is compared against the peers that hold
\* the same digit.  An iteration removes exactly one cell, one that has a
\* same-digit peer and the lowest such score, the lowest index among those;
\* the loop ends by `break` exactly when no cell has a same-digit peer.
C18_LowestScoreAgainstSameDigitPeers ==
    [][ /\ guard' # guard =>
              \E i \in Cells :
                  /\ HasSameDigitPeer(nextValues, i)
                  /\ lastDrop' = i
                  /\ nextValues' = [nextValues EXCEPT ![i] = null]
                  /\ nextConf' = [nextConf EXCEPT ![i] = 0]
                  /\ \A j \in Cells :
                        HasSameDigitPeer(nextValues, j) =>
                            \/ GreedyScore(nextValues, nextConf, i) < GreedyScore(nextValues, nextConf, j)
                            \/ (GreedyScore(nextValues, nextConf, i) = GreedyScore(nextValues, nextConf, j)
                                  /\ i <= j)
        /\ (ppc = "loop" /\ ppc' = "returned" /\ guard < 200) =>
              ConflictFree(nextValues) ]_vars

\* Cells 1 and 28 held the same digit at confidence 86 and cell 27, a peer
\* of 28 only, another digit at 90: cell 1 was removed and 28 kept.
C18_Witness ==
    /\ ppc = "returned"
    /\ dropped = 1
    /\ inValues[1] # null
    /\ inValues[28] = inValues[1]
    /\ inValues[27] \notin {null, inValues[1]}
    /\ inConf[1] = 86
    /\ inConf[28] = 86
    /\ inConf[27] = 90
    /\ nextValues[1] = null
    /\ nextValues[28] # null

(***************************************************************************)
(* Properties of otsuThreshold (SpecOtsu)                                  *)
(***************************************************************************)
Intensities(px) == {px[k] : k \in 1 .. Len(px)}

\* C19 as stated: for a pixel array with exactly two distinct intensities
\* a < b otsuThreshold returns a threshold t with a < t < b.
C19_ThresholdStrictlyBetweenModes ==
    (Returned("otsuThreshold") /\ Cardinality(Intensities(libCall.grayPixels)) = 2) =>
        \A a, b \in Intensities(libCall.grayPixels) :
            a < b => (a < libRet /\ libRet < b)

(***************************************************************************)
(* Properties of warpCanvasToSquare (SpecWarp)                             *)
(***************************************************************************)
\* The source pixel at (ix, iy) with alpha 255.
CopyOf(source, ix, iy) == [source.data[iy * source.width + ix] EXCEPT !.a = 255]

\* The pixels of the returned canvas that hold neither the copy of a source
\* pixel nor opaque white.
NeitherCopiedNorWhite ==
    {p \in DOMAIN libRet.data :
        /\ libRet.data[p] # White
        /\ \A ix \in 0 .. libCall.source.width - 1, iy \in 0 .. libCall.source.height - 1 :
              libRet.data[p] # CopyOf(libCall.source, ix, iy)}

\* C20 as stated: every pixel of a canvas warpCanvasToSquare returns is the
\* copy, with alpha 255, of a source pixel or is opaque white, and none is
\* left at its unwritten initial value.
C20_EveryPixelCopiedOrWhite ==
    (Returned("warpCanvasToSquare") /\ ~libRet.isNull) =>
        /\ NeitherCopiedNorWhite = {}
        /\ \A p \in DOMAIN libRet.data : libRet.data[p] # Unwritten

(***************************************************************************)
(* Properties of estimateGridRect (SpecRect)                               *)
(***************************************************************************)
\* The rows, and the columns, of the called canvas with more dark pixels
\* than the ink threshold.
InkRows ==
    LET c == libCall.canvas
    IN  {y \in 0 .. c.height - 1 :
            Cardinality({x \in 0 .. c.width - 1 : IsDark(c, x, y)})
                > MaxOf2(8, (9 * c.width) \div 100)}

InkCols ==
    LET c == libCall.canvas
    IN  {x \in 0 .. c.width - 1 :
            Cardinality({y \in 0 .. c.height - 1 : IsDark(c, x, y)})
                > MaxOf2(8, (9 * c.height) \div 100)}

MinOf(S) == CHOOSE m \in S : \A n \in S : m <= n

\* The found box of a canvas with ink rows and ink columns.
BoxWidth == MaxOf(InkCols) - MinOf(InkCols)

BoxHeight == MaxOf(InkRows) - MinOf(InkRows)

\* The cases C21 names: no ink row or no ink column, a degenerate box, or
\* a box whose sides differ by more than a quarter of the shorter side of
\* the canvas.
RectFallbackCase ==
    \/ InkRows = {}
    \/ InkCols = {}
    \/ BoxWidth <= 0
    \/ BoxHeight <= 0
    \/ 4 * Abs(BoxWidth - BoxHeight) > MinOf2(libCall.canvas.width, libCall.canvas.height)

\* C21: estimateGridRect never throws, and in each of the fallback cases it
\* returns exactly {left: 0, top: 0, size: min(width, height)}.
C21_FallbackIsFullImageSquare ==
    /\ lpc # "thrown"
    /\ (Returned("estimateGridRect") /\ libCall.canvas.hasContext /\ RectFallbackCase) =>
          libRet = [left |-> 0, top |-> 0,
                    size |-> MinOf2(libCall.canvas.width, libCall.canvas.height)]

\* A call that returned the full-image square for a box that is too far
\* from square, of a canvas that is not all white.
C21_Witness ==
    /\ Returned("estimateGridRect")
    /\ libCall.canvas.hasContext
    /\ InkRows # {}
    /\ InkCols # {}
    /\ BoxWidth > 0
    /\ BoxHeight > 0
    /\ 4 * Abs(BoxWidth - BoxHeight) > MinOf2(libCall.canvas.width, libCall.canvas.height)
    /\ libRet.size = MinOf2(libCall.canvas.width, libCall.canvas.height)

\* C27: the rectangle estimateGridRect returns is a non-empty square inside
\* the canvas, on the success path and on every fallback path.
C27_RectInsideImage ==
    Returned("estimateGridRect") =>
        /\ libRet.left >= 0
        /\ libRet.top >= 0
        /\ libRet.size >= 1
        /\ libRet.left + libRet.size <= libCall.canvas.width
        /\ libRet.top + libRet.size <= libCall.canvas.height

\* A call on the success path whose square was moved into the middle of a
\* wider box.
C27_Witness ==
    /\ Returned("estimateGridRect")
    /\ libCall.canvas.hasContext
    /\ ~RectFallbackCase
    /\ BoxWidth > BoxHeight + 1
    /\ libRet.size = BoxHeight
    /\ libRet.left > MinOf(InkCols)

(***************************************************************************)
(* Properties of removeBorderConnectedInk (SpecFlood)                      *)
(***************************************************************************)
\* The ink pixels of image data.
InkOf(data) == {idx \in DOMAIN data : data[idx].r < 128}

OnBorder(idx) ==
    \/ idx % libCall.width \in {0, libCall.width - 1}
    \/ idx \div libCall.width \in {0, libCall.height - 1}

Adjacent(p, q) ==
    \/ (p \div libCall.width = q \div libCall.width /\ Abs(p - q) = 1)
    \/ Abs(p - q) = libCall.width

\* The pixels of ink joined to a pixel of from by a 4-connected path in ink.
RECURSIVE Grown(_, _)
Grown(from, ink) ==
    LET more == from \cup {p \in ink : \E q \in from : Adjacent(p, q)}
    IN  IF more = from THEN from ELSE Grown(more, ink)

\* The 4-connected ink components of the input that hold a border pixel.
BorderInk == Grown({p \in InkOf(libCall.data) : OnBorder(p)}, InkOf(libCall.data))

\* No index is pushed twice, and once the call has returned the ink is the
\* input's ink without the border components, whose pixels are white, and
\* every other pixel is as it was.
FloodResult ==
    libCall.fn = "removeBorderConnectedInk" =>
        /\ \A idx \in DOMAIN libRet.pushes : libRet.pushes[idx] <= 1
        /\ lpc = "returned" =>
              /\ InkOf(libRet.data) = InkOf(libCall.data) \ BorderInk
              /\ \A idx \in DOMAIN libCall.data :
                    libRet.data[idx] = IF idx \in BorderInk
                                          THEN [r |-> 255, g |-> 255, b |-> 255]
                                          ELSE libCall.data[idx]

\* An iteration of the while loop whitens a pixel that was ink and pushes
\* only pixels that are ink, so the loop runs at most once per ink pixel.
FloodProgress ==
    (lpc = "flood" /\ lpc' = "flood") =>
        /\ InkOf(libRet'.data) \subseteq InkOf(libRet.data)
        /\ Cardinality(InkOf(libRet'.data)) < Cardinality(InkOf(libRet.data))
        /\ \A k \in 1 .. Len(libRet'.queue) : libRet'.queue[k] \in InkOf(libRet'.data)

\* C22: removeBorderConnectedInk terminates (each iteration of its loop
\* removes one ink pixel, and it returns when the queue is empty), pushes
\* each pixel at most once, and leaves the input without exactly the
\* 4-connected ink components that hold a border pixel, every other pixel
\* unchanged.
C22_ErasesExactlyBorderComponents ==
    /\ []FloodResult
    /\ [][FloodProgress]_vars
    /\ [](libCall.fn = "removeBorderConnectedInk" /\ lpc = "flood" =>
            (ENABLED FloodPop \/ ENABLED FloodReturn))

\* A returned call that erased a border component reaching into the
\* interior and kept an ink pixel that touches no border.
C22_Witness ==
    /\ libCall.fn = "removeBorderConnectedInk"
    /\ lpc = "returned"
    /\ \E p \in BorderInk : ~OnBorder(p)
    /\ \E p \in InkOf(libRet.data) : ~OnBorder(p)

(***************************************************************************)
(* Properties of findGridCorners (SpecCorners)                             *)
(***************************************************************************)
\* Twice the signed area of the triangle a, b, c.
Turn(a, b, c) == (b[1] - a[1]) * (c[2] - a[2]) - (b[2] - a[2]) * (c[1] - a[1])

\* c lies on the segment a b.
OnSegment(a, b, c) ==
    /\ Turn(a, b, c) = 0
    /\ MinOf2(a[1], b[1]) <= c[1] /\ c[1] <= MaxOf2(a[1], b[1])
    /\ MinOf2(a[2], b[2]) <= c[2] /\ c[2] <= MaxOf2(a[2], b[2])

\* The segments a b and c d have a point in common.
Crossing(a, b, c, d) ==
    \/ /\ Turn(a, b, c) * Turn(a, b, d) < 0
       /\ Turn(c, d, a) * Turn(c, d, b) < 0
    \/ OnSegment(a, b, c) \/ OnSegment(a, b, d)
    \/ OnSegment(c, d, a) \/ OnSegment(c, d, b)

\* The points p1 p2 p3 p4 are pairwise distinct and the closed path through
\* them is a simple quadrilateral: opposite sides do not meet and no corner
\* is flat.
SimpleQuadrilateral(p1, p2, p3, p4) ==
    /\ Cardinality({p1, p2, p3, p4}) = 4
    /\ ~Crossing(p1, p2, p3, p4)
    /\ ~Crossing(p2, p3, p4, p1)
    /\ Turn(p1, p2, p3) # 0
    /\ Turn(p2, p3, p4) # 0
    /\ Turn(p3, p4, p1) # 0
    /\ Turn(p4, p1, p2) # 0

\* The corners returned are ink pixels extreme in x + y and in x - y.
CornersAreExtremes ==
    /\ {libRet.topLeft, libRet.topRight, libRet.bottomLeft, libRet.bottomRight}
          \subseteq libCall.ink
    /\ \A q \in libCall.ink :
          /\ libRet.topLeft[1] + libRet.topLeft[2] <= q[1] + q[2]
          /\ libRet.bottomRight[1] + libRet.bottomRight[2] >= q[1] + q[2]
          /\ libRet.bottomLeft[1] - libRet.bottomLeft[2] <= q[1] - q[2]
          /\ libRet.topRight[1] - libRet.topRight[2] >= q[1] - q[2]

\* C23 as stated: a corner set findGridCorners returns consists of the ink
\* pixels extreme in x + y and x - y, and its points, in the order topLeft,
\* topRight, bottomRight, bottomLeft, are pairwise distinct and form a
\* simple quadrilateral.
C23_CornersFormSimpleQuadrilateral ==
    (Returned("findGridCorners") /\ ~libRet.isNull) =>
        /\ CornersAreExtremes
        /\ SimpleQuadrilateral(libRet.topLeft, libRet.topRight,
                               libRet.bottomRight, libRet.bottomLeft)

(***************************************************************************)
(* Recognitions in flight in the fixture runner (SpecRunner)               *)
(***************************************************************************)
\* The runFixture calls that await recognizeSudokuFromImageFile.
Recognizing == {n \in 1 .. Len(runs) : runs[n].at = "recognize"}

\* C24 as stated: whatever is clicked, at most one
\* recognizeSudokuFromImageFile call is in flight at any time.
C24_AtMostOneRecognitionInFlight == Cardinality(Recognizing) <= 1

(***************************************************************************)
(* Cells pruneConflictingDetections never removes (SpecPrune)              *)
(***************************************************************************)
\* The input cells that hold the same digit as cell i and share a unit
\* with it.
InputPeers(i) == {j \in Cells : inValues[j] = inValues[i] /\ IsPeer(i, j)}

\* A detection of confidence at least 86 and above that of each of its
\* same-digit peers in the input.
Dominant(i) ==
    /\ inValues[i] # null
    /\ inConf[i] >= 86
    /\ \A j \in InputPeers(i) : inConf[j] < inConf[i]

\* C25: a cell whose confidence is at least 86 and strictly greater than
\* that of every same-digit peer in the input is never removed.
C25_DominantCellIsKept ==
    ppc \in {"loop", "returned"} =>
        \A i \in Cells : Dominant(i) => nextValues[i] = inValues[i]

\* A returned call that removed a same-digit peer of a dominant cell.
C25_Witness ==
    /\ ppc = "returned"
    /\ \E i \in Cells :
          /\ Dominant(i)
          /\ nextValues[i] # null
          /\ \E j \in InputPeers(i) : nextValues[j] = null

\* C26: a cell without a same-digit peer in the input is never removed; an
\* input without conflicts is returned as it is with dropped = 0; and
\* pruning the returned values again removes nothing.
C26_CellsWithoutConflictAreKept ==
    /\ ppc \in {"loop", "returned"} =>
          \A i \in Cells :
              (inValues[i] # null /\ InputPeers(i) = {}) => nextValues[i] = inValues[i]
    /\ (ppc = "returned" /\ \A i \in Cells : inValues[i] # null => InputPeers(i) = {}) =>
          (nextValues = inValues /\ dropped = 0)
    /\ ppc = "returned" =>
          pruneConflictingDetections(nextValues, inConf)
              = [values |-> nextValues, dropped |-> 0]

\* A returned call that removed a detection and kept another one that had
\* no same-digit peer in the input.
C26_Witness ==
    /\ ppc = "returned"
    /\ dropped >= 1
    /\ \E i \in Cells : inValues[i] # null /\ InputPeers(i) = {} /\ nextValues[i] # null

(***************************************************************************)
(* Overlapping recognitions in PuzzleSnapApp (SpecSnap)                    *)
(***************************************************************************)
\* The runRecognition call started last.
LatestRecognition == recognitions[Len(recognitions)]

\* The last call was started from the corners, by the fourth corner or by
\* clearing them, while an earlier call was in flight, and it has resolved.
LatestOverlapped ==
    /\ recognitions # <<>>
    /\ LatestRecognition.by \in {"corners", "clear"}
    /\ LatestRecognition.overlaps
    /\ LatestRecognition.at = "done"

\* A step of the detect stage in which the last recognition in flight
\* finishes.
LastOneFinishes == InFlight # {} /\ InFlight' = {} /\ stage' = "detect"

\* C28: when recognitions overlap, the values and the preview shown once
\* all of them have finished are those of the one started last, and busy is
\* true as long as a recognition is in flight.
C28_LatestRecognitionWins ==
    /\ [][(LastOneFinishes /\ LatestOverlapped') =>
              /\ recognizedValues' = RecognitionOf(LatestRecognition)
              /\ previewUrl' = RecognitionOf(LatestRecognition)]_vars
    /\ [](InFlight # {} => busy)

(***************************************************************************)
(* Given cells and history of the SudokuApp board (SpecPlay)               *)
(***************************************************************************)
GivenCells == {i \in Cells : startValues[i] # null}

\* What the board shows and remembers.
Shown ==
    [values |-> boardValues, notes |-> notes,
     history |-> history, historyIndex |-> historyIndex]

\* applyDigit leaves the board as it is for every digit and for delete.
MoveChangesNothing(sel) ==
    \A digit \in Digits \cup {null} : applyDigit(sel, digit) = Shown

\* C29: every given cell holds its starting value after any sequence of
\* moves, undos and resets, and a move on a given cell or without a selected
\* cell changes neither values nor notes and adds no history entry.
C29_GivenCellsAreFixed ==
    /\ \A i \in GivenCells : boardValues[i] = startValues[i]
    /\ \A i \in GivenCells : \A k \in 1 .. Len(history) :
            history[k].values[i] = startValues[i]
    /\ selected \in GivenCells => MoveChangesNothing(selected)
    /\ MoveChangesNothing(NoSelection)

\* A given cell is selected after moves on other cells were made and one of
\* them undone.
C29_Witness ==
    /\ selected \in GivenCells
    /\ Len(history) = MaxHistory
    /\ historyIndex = 1
    /\ boardValues # startValues

\* A step that changes history.
HistoryChanges == history' # history

\* C30: historyIndex is an index of history and the board shows
\* history[historyIndex]; undo at index 0 changes nothing; and a step that
\* adds a snapshot keeps the entries up to historyIndex, drops those above
\* it, appends what the board then shows and points historyIndex at it.
C30_HistoryFollowsTheBoard ==
    /\ [](/\ 0 <= historyIndex
          /\ historyIndex < Len(history)
          /\ boardValues = history[historyIndex + 1].values
          /\ notes = history[historyIndex + 1].notes)
    /\ [][(Undo /\ historyIndex = 0) => UNCHANGED playVars]_vars
    /\ [][HistoryChanges =>
              /\ history' = Append(SubSeq(history, 1, historyIndex + 1),
                                   [values |-> boardValues', notes |-> notes'])
              /\ historyIndex' = Len(history') - 1]_vars

\* Every move was undone: the board shows the first snapshot again, where
\* undo does nothing and from where the next move or reset drops the
\* snapshots above.
C30_Witness ==
    /\ Len(history) = MaxHistory
    /\ historyIndex = 0
    /\ history[MaxHistory].values # startValues
    /\ \E i \in PlaySelectable : history[2].notes[i] # 0

====
